---- MODULE Spec2Model ----
(***************************************************************************)
(* Model of scripts/validation/workflow_integrity.py: the workflow graph   *)
(* validator (dead-code detection, connection integrity, auto-fix) and the *)
(* command line driver around it.                                          *)
(***************************************************************************)
EXTENDS Integers, Sequences, FiniteSets, TLC

(***************************************************************************)
(* Bounds of the explored inputs.                                          *)
(***************************************************************************)
\* one document: its nodes, its connection entries, and both together
MaxNodes == 4
MaxEdges == 2
MaxSize == 4
\* whole-directory mode: the files of the directory, and the nodes and
\* connection entries of all of them together
MaxFiles == 2
DirMaxSize == 2
\* the per-node checks: the nodes of a document after its trigger
ChecksMaxNodes == 1
\* lint_workflow: the code and merge nodes of a document
LintMaxNodes == 2

(***************************************************************************)
(* Node types.  The code only tests a type for the keywords it contains    *)
(* ("Trigger" in type, "chainLlm" in type, ...), so a type is modelled by  *)
(* its string together with the table of the keywords that occur in it.    *)
(***************************************************************************)
TypeManualTrigger == "n8n-nodes-base.manualTrigger"
TypeCode == "n8n-nodes-base.code"
TypeChainLlm == "@n8n/n8n-nodes-langchain.chainLlm"
TypeLmChatOpenAi == "@n8n/n8n-nodes-langchain.lmChatOpenAi"
TypeExecuteWorkflowTrigger == "n8n-nodes-base.executeWorkflowTrigger"
TypeExecuteWorkflow == "n8n-nodes-base.executeWorkflow"
TypeSwitch == "n8n-nodes-base.switch"
TypeMerge == "n8n-nodes-base.merge"

NodeTypeSeq == <<TypeManualTrigger, TypeCode, TypeChainLlm, TypeLmChatOpenAi>>

\* kw in node.get("type", "") for the keywords the code looks for
KeywordsIn(type) ==
    CASE type = TypeManualTrigger -> {"Trigger"}
      [] type = TypeExecuteWorkflowTrigger -> {"Trigger", "executeWorkflowTrigger"}
      [] type = TypeChainLlm -> {"chainLlm"}
      [] type = TypeLmChatOpenAi -> {"lmChatOpenAi"}
      [] OTHER -> {}

trigger_keywords == {"Trigger", "webhook"}
ai_chain_types == {"chainLlm", "agentExecutor", "chainRetrievalQa"}
ai_model_types == {"lmChatOpenRouter", "lmChatOpenAi", "lmChatAnthropic", "lmChatMistral"}

IsTriggerType(type) == KeywordsIn(type) \cap trigger_keywords # {}
IsChainType(type) == KeywordsIn(type) \cap ai_chain_types # {}
IsModelType(type) == KeywordsIn(type) \cap ai_model_types # {}

\* full_type.split(".")[-1]
LastSegment(type) ==
    CASE type = TypeManualTrigger -> "manualTrigger"
      [] type = TypeCode -> "code"
      [] type = TypeChainLlm -> "chainLlm"
      [] type = TypeLmChatOpenAi -> "lmChatOpenAi"
      [] type = TypeExecuteWorkflowTrigger -> "executeWorkflowTrigger"
      [] type = TypeExecuteWorkflow -> "executeWorkflow"
      [] type = TypeSwitch -> "switch"
      [] type = TypeMerge -> "merge"
      [] OTHER -> type

(***************************************************************************)
(* JSON objects are records; a key the object does not have is not in the  *)
(* domain of the record.                                                   *)
(***************************************************************************)
\* the object {}
EmptyObject == [k \in {} |-> k]

\* obj.get(key, default)
Get(obj, key, default) == IF key \in DOMAIN obj THEN obj[key] ELSE default

\* workflow.get("nodes", []) and workflow.get("connections", {})
Nodes(workflow) == Get(workflow, "nodes", <<>>)
Connections(workflow) == Get(workflow, "connections", <<>>)

\* Path(filepath).stem of the files of the directory
StemSeq == <<"a", "b", "c", "d", "e", "f">>

\* wf.get("name", filepath.stem)
NameOf(workflow, filepath) == Get(workflow, "name", StemSeq[filepath])

(***************************************************************************)
(* Workflow documents (the parsed JSON of one file).                       *)
(*   nodes       : sequence of [name, type]                                *)
(*   connections : the JSON object in key order, a sequence of             *)
(*                 [src, outputs], outputs a sequence of [type, slots],    *)
(*                 slots a sequence of sequences of target names           *)
(***************************************************************************)
NodeNameSeq == <<"N1", "N2", "N3", "N4", "N5", "N6">>
\* a name that is never the name of a node
Missing == "X"

OutputSeq == << [type |-> "main", slot |-> 1],
                [type |-> "main", slot |-> 2],
                [type |-> "ai_languageModel", slot |-> 1] >>

\* the names of the first k nodes, and those with the missing name
NameSeq(k) == SubSeq(NodeNameSeq, 1, k)
EndSeq(k) == NameSeq(k) \o <<Missing>>

\* the e-th connection between the names ends: [src, type, slot, target]
EdgeAt(ends, e) ==
    LET n == Len(ends)
        o == ((e - 1) % Len(OutputSeq)) + 1
        t == (((e - 1) \div Len(OutputSeq)) % n) + 1
        s == ((e - 1) \div (Len(OutputSeq) * n)) + 1
    IN  [src |-> ends[s], type |-> OutputSeq[o].type,
         slot |-> OutputSeq[o].slot, target |-> ends[t]]

EdgeCount(ends) == Len(ends) * Len(ends) * Len(OutputSeq)

\* index of the entry of seq whose field f is v, 0 when there is none
RECURSIVE IndexOfSrc(_, _, _)
IndexOfSrc(conns, v, i) ==
    IF i > Len(conns) THEN 0
    ELSE IF conns[i].src = v THEN i ELSE IndexOfSrc(conns, v, i + 1)

RECURSIVE IndexOfType(_, _, _)
IndexOfType(outs, v, i) ==
    IF i > Len(outs) THEN 0
    ELSE IF outs[i].type = v THEN i ELSE IndexOfType(outs, v, i + 1)

\* slots with target appended to slot number slot, padded with empty slots
PutInSlots(slots, slot, target) ==
    LET padded == [i \in 1..(IF slot > Len(slots) THEN slot ELSE Len(slots)) |->
                      IF i <= Len(slots) THEN slots[i] ELSE <<>>]
    IN  [padded EXCEPT ![slot] = Append(@, target)]

PutInOutputs(outs, e) ==
    LET i == IndexOfType(outs, e.type, 1)
    IN  IF i = 0
        THEN Append(outs, [type |-> e.type, slots |-> PutInSlots(<<>>, e.slot, e.target)])
        ELSE [outs EXCEPT ![i].slots = PutInSlots(@, e.slot, e.target)]

PutConnection(conns, e) ==
    LET i == IndexOfSrc(conns, e.src, 1)
    IN  IF i = 0
        THEN Append(conns, [src |-> e.src, outputs |-> PutInOutputs(<<>>, e)])
        ELSE [conns EXCEPT ![i].outputs = PutInOutputs(@, e)]

RECURSIVE ConnectionsOf(_, _, _)
ConnectionsOf(ends, idx, i) ==
    IF i = 0 THEN <<>>
    ELSE PutConnection(ConnectionsOf(ends, idx, i - 1), EdgeAt(ends, idx[i]))

\* non-decreasing index sequences of length at most m over 1..n
IndexSeqs(n, m) ==
    UNION { { f \in [1..l -> 1..n] : \A i \in 1..l : \A j \in 1..l : i < j => f[i] <= f[j] }
            : l \in 0..m }

Min(a, b) == IF a < b THEN a ELSE b

\* the node lists of exactly k nodes, named in order, their types in the
\* order of NodeTypeSeq
NodeLists(k) ==
    { [i \in 1..k |-> [name |-> NodeNameSeq[i], type |-> NodeTypeSeq[f[i]]]]
      : f \in { g \in [1..k -> 1..Len(NodeTypeSeq)] :
                   \A i \in 1..k : \A j \in 1..k : i < j => g[i] <= g[j] } }

\* the document with the nodes ns and the connections numbered idx between ends
DocOf(ns, ends, idx) ==
    [name |-> "Order_Flow", settings |-> "s", nodes |-> ns,
     connections |-> ConnectionsOf(ends, idx, Len(idx))]

\* the documents of exactly size nodes and connection entries together
\* (connections may mention the missing name)
DocsOfSize(size) ==
    UNION { UNION { { DocOf(ns, EndSeq(k), idx)
                      : idx \in { f \in [1..(size - k) -> 1..EdgeCount(EndSeq(k))] :
                                    \A i \in 1..(size - k) : \A j \in 1..(size - k) :
                                        i < j => f[i] <= f[j] } }
                    : ns \in NodeLists(k) }
            : k \in 0..size }

(***************************************************************************)
(* find_dead_code                                                          *)
(***************************************************************************)
\* the keys of the dict {n["name"]: n for n in nodes}
NodeNames(workflow) == { Nodes(workflow)[i].name : i \in DOMAIN Nodes(workflow) }

\* the keys of that dict in insertion order (a repeated name keeps its first place)
RECURSIVE NodeKeys(_, _)
NodeKeys(nodes, i) ==
    IF i = 0 THEN <<>>
    ELSE LET before == NodeKeys(nodes, i - 1)
         IN  IF \E j \in 1..(i - 1) : nodes[j].name = nodes[i].name
             THEN before ELSE Append(before, nodes[i].name)

\* the value of that dict at name (a repeated name keeps its last node)
NodeNamed(workflow, name) ==
    LET last == CHOOSE i \in DOMAIN Nodes(workflow) :
                    /\ Nodes(workflow)[i].name = name
                    /\ \A j \in DOMAIN Nodes(workflow) :
                           Nodes(workflow)[j].name = name => j <= i
    IN  Nodes(workflow)[last]

RECURSIVE FlattenSlots(_, _)
FlattenSlots(slots, i) ==
    IF i > Len(slots) THEN <<>> ELSE slots[i] \o FlattenSlots(slots, i + 1)

RECURSIVE FlattenOutputs(_, _)
FlattenOutputs(outputs, i) ==
    IF i > Len(outputs) THEN <<>>
    ELSE FlattenSlots(outputs[i].slots, 1) \o FlattenOutputs(outputs, i + 1)

\* the number of nodes and connection entries of a document
RECURSIVE CountConnections(_, _)
CountConnections(conns, i) ==
    IF i > Len(conns) THEN 0
    ELSE Len(FlattenOutputs(conns[i].outputs, 1)) + CountConnections(conns, i + 1)

SizeOf(w) == Len(Nodes(w)) + CountConnections(Connections(w), 1)

\* as Graph, reading outputs.get("main", []) only
RECURSIVE FlattenMain(_, _)
FlattenMain(outputs, i) ==
    IF i > Len(outputs) THEN <<>>
    ELSE (IF outputs[i].type = "main" THEN FlattenSlots(outputs[i].slots, 1) ELSE <<>>)
         \o FlattenMain(outputs, i + 1)

GraphMainOnly(workflow) ==
    [name \in NodeNames(workflow) |->
        LET i == IndexOfSrc(Connections(workflow), name, 1)
        IN  IF i = 0 THEN <<>> ELSE FlattenMain(Connections(workflow)[i].outputs, 1)]

\* as Graph, with an adjacency list for every source of a connection entry,
\* node or not
GraphAnySource(workflow) ==
    [name \in NodeNames(workflow)
               \cup { Connections(workflow)[i].src : i \in DOMAIN Connections(workflow) } |->
        LET i == IndexOfSrc(Connections(workflow), name, 1)
        IN  IF i = 0 THEN <<>> ELSE FlattenOutputs(Connections(workflow)[i].outputs, 1)]

\* graph[name]: the targets of the connections out of the node name, in order
Graph(workflow) ==
    [name \in NodeNames(workflow) |->
        LET i == IndexOfSrc(Connections(workflow), name, 1)
        IN  IF i = 0 THEN <<>> ELSE FlattenOutputs(Connections(workflow)[i].outputs, 1)]

\* as Triggers, starting at the first node when no node is a trigger
TriggersOrFirstNode(workflow) ==
    LET keys == NodeKeys(Nodes(workflow), Len(Nodes(workflow)))
        triggers == SelectSeq(keys, LAMBDA name : IsTriggerType(NodeNamed(workflow, name).type))
    IN  IF triggers = <<>> /\ keys # <<>> THEN <<keys[1]>> ELSE triggers

Triggers(workflow) ==
    SelectSeq(NodeKeys(Nodes(workflow), Len(Nodes(workflow))),
              LAMBDA name : IsTriggerType(NodeNamed(workflow, name).type))

\* graph.get(node, [])
Neighbors(graph, node) == IF node \in DOMAIN graph THEN graph[node] ELSE <<>>

\* as BfsIteration, marking a node when it is put in the queue, not when it is
\* taken out: the nodes the queue starts with are never marked
BfsIterationMarkOnEnqueue(graph, q, r) ==
    LET fresh == SelectSeq(Neighbors(graph, Head(q)), LAMBDA nb : nb \notin r)
    IN  [queue |-> Tail(q) \o fresh,
         reachable |-> r \cup { fresh[i] : i \in DOMAIN fresh }]

\* as BfsIteration, testing "neighbor not in queue" in place of the visited
\* set: a node taken out of the queue is expanded every time
RECURSIVE AppendNew(_, _, _)
AppendNew(q, nbs, i) ==
    IF i > Len(nbs) THEN q
    ELSE AppendNew(IF \E j \in DOMAIN q : q[j] = nbs[i] THEN q ELSE Append(q, nbs[i]),
                   nbs, i + 1)

BfsIterationQueueAsVisited(graph, q, r) ==
    [queue |-> AppendNew(Tail(q), Neighbors(graph, Head(q)), 1),
     reachable |-> r \cup {Head(q)}]

\* as BfsIteration, without "if node in reachable: continue": a name that is
\* in the queue twice is expanded twice
BfsIterationExpandAgain(graph, q, r) ==
    [queue |-> Tail(q) \o SelectSeq(Neighbors(graph, Head(q)),
                                    LAMBDA nb : nb \notin (r \cup {Head(q)})),
     reachable |-> r \cup {Head(q)}]
\* one iteration of the loop "while queue": the queue and the reachable set after it
BfsIteration(graph, q, r) ==
    LET node == Head(q)
    IN  IF node \in r
        THEN [queue |-> Tail(q), reachable |-> r]
        ELSE [queue |-> Tail(q) \o SelectSeq(Neighbors(graph, node),
                                             LAMBDA nb : nb \notin (r \cup {node})),
              reachable |-> r \cup {node}]

\* dead = set(nodes.keys()) - reachable
DeadBeforeRescue(workflow, r) == NodeNames(workflow) \ r

\* the names of reachable that are no key of nodes: nodes[name] raises KeyError
Unknown(workflow, r) == r \ NodeNames(workflow)

ReachableChains(workflow, r) ==
    { name \in r \cap NodeNames(workflow) : IsChainType(NodeNamed(workflow, name).type) }

AiModels(workflow) ==
    { name \in NodeNames(workflow) : IsModelType(NodeNamed(workflow, name).type) }

\* as DeadAfterRescue, continuing the traversal from the rescued model nodes:
\* what they lead to is taken out of the dead set too
RECURSIVE TraverseFrom(_, _, _)
TraverseFrom(graph, q, r) ==
    IF q = <<>> THEN r
    ELSE TraverseFrom(graph, BfsIteration(graph, q, r).queue, BfsIteration(graph, q, r).reachable)

DeadAfterRescueTransitive(workflow, r, d) ==
    IF ReachableChains(workflow, r) # {}
    THEN d \ TraverseFrom(Graph(workflow),
                          SelectSeq(NodeNameSeq, LAMBDA n : n \in AiModels(workflow)), {})
    ELSE d

\* as DeadAfterRescue, asking for an AI chain node anywhere in the document
DeadAfterRescueAnyChain(workflow, r, d) ==
    IF \E name \in NodeNames(workflow) : IsChainType(NodeNamed(workflow, name).type)
    THEN d \ AiModels(workflow) ELSE d

\* the dead set find_dead_code returns when it returns
DeadAfterRescue(workflow, r, d) ==
    IF ReachableChains(workflow, r) # {} THEN d \ AiModels(workflow) ELSE d

(***************************************************************************)
(* ValidationResult and validate_workflow                                  *)
(***************************************************************************)
\* one diagnostic message: what it reports and the names it mentions
Diag(kind, count, names, src, target) ==
    [kind |-> kind, count |-> count, names |-> names, src |-> src, target |-> target]

\* sorted(names): the node names are listed in NodeNameSeq in sorted order
Sorted(names) == SelectSeq(NodeNameSeq, LAMBDA n : n \in names)

DiagDeadCode(d) == Diag("DEAD CODE", Cardinality(d), Sorted(d), "", "")
DiagNoTrigger == Diag("No trigger nodes found in workflow", 0, <<>>, "", "")
DiagFromMissing(src) == Diag("Connection from non-existent node", 0, <<>>, src, "")
DiagToMissing(src, target) == Diag("Connection to non-existent node", 0, <<>>, src, target)
DiagInvalidJson == Diag("Invalid JSON", 0, <<>>, "", "")
DiagAllValidated(n) == Diag("All nodes validated successfully", n, <<>>, "", "")
DiagCannotRead == Diag("Cannot read file", 0, <<>>, "", "")
DiagArchived == Diag("Workflow is archived - skipping validation", 0, <<>>, "", "")
\* the messages of the per-node checks: src is the node they name
DiagEmptyTrigger(name) == Diag("executeWorkflowTrigger has empty parameters", 0, <<>>, name, "")
DiagMissingWorkflowId(name) ==
    Diag("Execute Workflow missing workflowId configuration", 0, <<>>, name, "")
DiagNotListMode(name, mode) ==
    Diag("Execute Workflow using mode instead of 'list' (not portable)", 0, <<>>, name, mode)
DiagUnknownWorkflow(name, cached_name) ==
    Diag("References workflow which does not exist", 0, <<>>, name, cached_name)
DiagFallbackNotString(name, typename) ==
    Diag("Switch node fallbackOutput must be string ('extra' or 'none')", 0, <<>>, name, typename)
DiagFallbackInvalid(name, fallback) ==
    Diag("Switch node fallbackOutput invalid value", 0, <<>>, name, fallback)
DiagReturnsArray(name) ==
    Diag("Code in runOnceForEachItem mode returns array - should return single object",
         0, <<>>, name, "")
DiagMergeEmpty(name) ==
    Diag("Merge node has empty parameters (needs mode configuration)", 0, <<>>, name, "")
DiagMergeNoMode(name) == Diag("Merge node missing 'mode' parameter", 0, <<>>, name, "")

\* ValidationResult(workflow_name="Unknown", filepath=filepath)
NewResult(filepath) ==
    [workflow_name |-> "Unknown", filepath |-> filepath, errors |-> <<>>,
     warnings |-> <<>>, info |-> <<>>, dead_nodes |-> {}]

passed(r) == Len(r.errors) = 0
has_warnings(r) == Len(r.warnings) > 0

\* the errors of Check 3 for the targets of one connections entry, in order
RECURSIVE TargetErrors(_, _, _, _)
TargetErrors(names, src, targets, i) ==
    IF i > Len(targets) THEN <<>>
    ELSE (IF targets[i] \notin names THEN <<DiagToMissing(src, targets[i])>> ELSE <<>>)
         \o TargetErrors(names, src, targets, i + 1)

\* Check 3: connection integrity, over the connections in key order
RECURSIVE ConnectionErrors(_, _, _)
ConnectionErrors(names, conns, i) ==
    IF i > Len(conns) THEN <<>>
    ELSE (IF conns[i].src \notin names THEN <<DiagFromMissing(conns[i].src)>> ELSE <<>>)
         \o TargetErrors(names, conns[i].src, FlattenOutputs(conns[i].outputs, 1), 1)
         \o ConnectionErrors(names, conns, i + 1)

(***************************************************************************)
(* The per-node checks.  A JSON value whose type a check tests is a record *)
(* [json, value]: fallbackOutput.  The other values are strings, numbers   *)
(* or objects as the checks expect them.                                   *)
(***************************************************************************)
JsonNull == [json |-> "NoneType", value |-> ""]
JsonStr(v) == [json |-> "str", value |-> v]
JsonBool(v) == [json |-> "bool", value |-> v]

\* "not obj" for a dict
IsEmpty(obj) == DOMAIN obj = {}

get_node_type(node) == LastSegment(Get(node, "type", ""))

\* the warning of check_empty_trigger, <<>> for None
check_empty_trigger(node) ==
    IF "executeWorkflowTrigger" \in KeywordsIn(Get(node, "type", ""))
       /\ IsEmpty(Get(node, "parameters", EmptyObject))
    THEN <<DiagEmptyTrigger(Get(node, "name", "None"))>>
    ELSE <<>>

\* as check_execute_workflow_config, without looking the name up in the registry
check_execute_workflow_config_no_lookup(node, workflow_names) ==
    LET node_name == Get(node, "name", "Unknown")
        params == Get(node, "parameters", EmptyObject)
        workflow_id == Get(params, "workflowId", EmptyObject)
        mode == Get(workflow_id, "mode", "None")
        cached_name == Get(workflow_id, "cachedResultName", "")
    IN  IF IsEmpty(workflow_id)
        THEN <<DiagMissingWorkflowId(node_name)>>
        ELSE (IF mode # "list" THEN <<DiagNotListMode(node_name, mode)>> ELSE <<>>)
             \o (IF cached_name # ""
                 THEN <<DiagUnknownWorkflow(node_name, cached_name)>> ELSE <<>>)

\* workflow_names is self._workflow_names; mode is "None" if there is none
check_execute_workflow_config(node, workflow_names) ==
    LET node_name == Get(node, "name", "Unknown")
        params == Get(node, "parameters", EmptyObject)
        workflow_id == Get(params, "workflowId", EmptyObject)
        mode == Get(workflow_id, "mode", "None")
        cached_name == Get(workflow_id, "cachedResultName", "")
    IN  IF IsEmpty(workflow_id)
        THEN <<DiagMissingWorkflowId(node_name)>>
        ELSE (IF mode # "list" THEN <<DiagNotListMode(node_name, mode)>> ELSE <<>>)
             \o (IF cached_name # "" /\ cached_name \notin workflow_names
                 THEN <<DiagUnknownWorkflow(node_name, cached_name)>> ELSE <<>>)

\* as check_switch_node_config, whatever the typeVersion
check_switch_node_config_any_version(node) ==
    LET node_name == Get(node, "name", "Unknown")
        params == Get(node, "parameters", EmptyObject)
        options == Get(params, "options", EmptyObject)
        fallback == Get(options, "fallbackOutput", JsonNull)
    IN  IF fallback # JsonNull
        THEN IF fallback.json # "str"
             THEN <<DiagFallbackNotString(node_name, fallback.json)>>
             ELSE IF fallback.value \notin {"extra", "none"}
                  THEN <<DiagFallbackInvalid(node_name, fallback.value)>>
                  ELSE <<>>
        ELSE <<>>

check_switch_node_config(node) ==
    LET node_name == Get(node, "name", "Unknown")
        type_version == Get(node, "typeVersion", 1)
        params == Get(node, "parameters", EmptyObject)
        options == Get(params, "options", EmptyObject)
        fallback == Get(options, "fallbackOutput", JsonNull)
    IN  IF type_version >= 3 /\ fallback # JsonNull
        THEN IF fallback.json # "str"
             THEN <<DiagFallbackNotString(node_name, fallback.json)>>
             ELSE IF fallback.value \notin {"extra", "none"}
                  THEN <<DiagFallbackInvalid(node_name, fallback.value)>>
                  ELSE <<>>
        ELSE <<>>

\* The embedded code texts of the explored documents, and for each what the
\* patterns of check_code_node_return find in it:
\*   array: re.search(r"return\s+\[\s*\{", code)
\*   json:  "return [{json:" in code
\*   spread: re.search(r"return\s+\[\s*\.\.\.|\.\.\.\$input", code)
CodeReturnsObject == "return { json: $json };"
CodeReturnsArray == "return [{ id: 1 }];"
CodeReturnsJsonArray == "return [{json: $json}];"
CodeSpreadsInput == "const all = [...$input.all()]; return [{ all }];"

JsCodeSeq == <<CodeReturnsObject, CodeReturnsArray, CodeReturnsJsonArray, CodeSpreadsInput>>

PatternsIn(code) ==
    CASE code = CodeReturnsArray -> {"array"}
      [] code = CodeReturnsJsonArray -> {"array", "json"}
      [] code = CodeSpreadsInput -> {"array", "spread"}
      [] OTHER -> {}

check_code_node_return(node) ==
    LET node_name == Get(node, "name", "Unknown")
        params == Get(node, "parameters", EmptyObject)
        mode == Get(params, "mode", "runOnceForAllItems")
        code == Get(params, "jsCode", "")
    IN  IF code = "" THEN <<>>
        ELSE IF /\ mode = "runOnceForEachItem"
                /\ "array" \in PatternsIn(code)
                /\ "json" \notin PatternsIn(code)
                /\ "spread" \notin PatternsIn(code)
             THEN <<DiagReturnsArray(node_name)>>
             ELSE <<>>

check_postgres_query_params(node) == <<>>

check_merge_node_config(node) ==
    LET node_name == Get(node, "name", "Unknown")
        params == Get(node, "parameters", EmptyObject)
    IN  IF IsEmpty(params) THEN <<DiagMergeEmpty(node_name)>>
        ELSE IF "mode" \notin DOMAIN params THEN <<DiagMergeNoMode(node_name)>>
        ELSE <<>>

\* check_merge_node_config of workflows/lint_workflows.py: what it adds to
\* the errors and to the warnings of the LintResult
lint_check_merge_node_config(node) ==
    LET name == Get(node, "name", "Unknown")
        params == Get(node, "parameters", EmptyObject)
    IN  IF IsEmpty(params)
        THEN [errors |-> <<DiagMergeEmpty(name)>>, warnings |-> <<>>]
        ELSE IF "mode" \notin DOMAIN params
             THEN [errors |-> <<>>, warnings |-> <<DiagMergeNoMode(name)>>]
             ELSE [errors |-> <<>>, warnings |-> <<>>]

(***************************************************************************)
(* workflows/lint_workflows.py: LintResult and the checks of a code node  *)
(***************************************************************************)
NewLintResult == [errors |-> <<>>, warnings |-> <<>>, infos |-> <<>>]

\* what one check adds to the LintResult
NoFinding == NewLintResult
LintError(d) == [errors |-> <<d>>, warnings |-> <<>>, infos |-> <<>>]
LintWarn(d) == [errors |-> <<>>, warnings |-> <<d>>, infos |-> <<>>]
LintOk(d) == [errors |-> <<>>, warnings |-> <<>>, infos |-> <<d>>]

Added(r, f) ==
    [errors |-> r.errors \o f.errors, warnings |-> r.warnings \o f.warnings,
     infos |-> r.infos \o f.infos]

DiagFlatResponse(name) ==
    Diag("returns flat {response:} instead of {ctx: {..., response:}}", 0, <<>>, name, "")
DiagFlatAccess(name) == Diag("may be using flat data access", 0, <<>>, name, "")
DiagNamespaces(name, unapproved) ==
    Diag("uses non-standard ctx namespace(s)", Cardinality(unapproved), <<>>, name, "")
DiagMissingCritical(name, fields) ==
    Diag("ctx.event initialization missing critical fields", 0, fields, name, "")
DiagMissingRecommended(name, fields) ==
    Diag("ctx.event initialization missing recommended fields", 0, fields, name, "")
DiagHasFields(name) == Diag("ctx.event has required fields", 0, <<>>, name, "")
DiagManyReferences(name, n) == Diag("node references", n, <<>>, name, "")

\* the texts of jsCode and what the tests of the code-node checks find in
\* them; the names are the tests
\*   "ctx:", "event:":  the substring is in code
\*   "event_id:":   re.search(r"\bevent_id\s*:", code[code.find("event:"):])
\*   "trace_chain:": re.search(r"\btrace_chain\s*:", code[code.find("event:"):])
\*   "response":    re.search(r"return\s*\{\s*response:", code)
\*   "short":       "passthrough" in code.lower() or len(code) < 50
\*   "access":      re.findall(r"\$json\.(?!ctx)[a-z_]+(?!\s*\|\|)", code)
\* no text matches another entry of old_patterns, reads a namespace of ctx
\* or holds a $('...') reference
CodeCtxBoth == "return { json: { ctx: { event: { event_id: id, trace_chain: [id] } } } };"
CodeCtxEventIdOnly == "return { json: { ctx: { event: { event_id: id, clean_text: text } } } };"
CodeCtxTraceChainOnly ==
    "return { json: { ctx: { event: { trace_chain: [id], clean_text: text } } } };"
CodeCtxNeither == "return { json: { ctx: { event: { clean_text: text } } } };"
CodeCtxNoEvent == "return { json: { ctx: { llm: { completion_text: text } } } };"
CodeFlatResponse == "const text = $json.ctx.llm.completion_text; return { response: text };"
CodeFlatAccess == "const text = $json.body.content.trim(); return { json: { clean_text: text } };"

CtxPatternsIn(code) ==
    CASE code = CodeReturnsObject -> {"short"}
      [] code = CodeCtxBoth -> {"ctx:", "event:", "event_id:", "trace_chain:"}
      [] code = CodeCtxEventIdOnly -> {"ctx:", "event:", "event_id:"}
      [] code = CodeCtxTraceChainOnly -> {"ctx:", "event:", "trace_chain:"}
      [] code = CodeCtxNeither -> {"ctx:", "event:"}
      [] code = CodeCtxNoEvent -> {"ctx:"}
      [] code = CodeFlatResponse -> {"response"}
      [] code = CodeFlatAccess -> {"access"}
      [] OTHER -> {}

\* re.findall(r"\$json\.ctx\.(\w+)", code) + re.findall(r"\.ctx\.(\w+)", code)
CtxAccessesIn(code) == IF code = CodeFlatResponse THEN {"llm"} ELSE {}

\* len(re.findall(r"\$\('([^']+)'\)", code))
ReferencesIn(code) == 0

JsCodeOf(node) == Get(Get(node, "parameters", EmptyObject), "jsCode", "")

\* the node names explored start with none of pre_ctx_patterns
check_code_node_ctx_pattern(node) ==
    LET name == Get(node, "name", "Unknown")
        code == JsCodeOf(node)
        has_ctx_return == "ctx:" \in CtxPatternsIn(code)
        old == IF "response" \in CtxPatternsIn(code)
               THEN LintError(DiagFlatResponse(name)) ELSE NoFinding
    IN  IF code = "" THEN NoFinding
        ELSE IF "short" \in CtxPatternsIn(code) THEN old
        ELSE IF "access" \in CtxPatternsIn(code) /\ ~has_ctx_return
             THEN Added(old, LintWarn(DiagFlatAccess(name)))
             ELSE old

ApprovedNamespaces ==
    {"event", "llm", "db", "validation", "thread", "command", "projection", "timing"}

check_ctx_namespace_whitelist(node) ==
    LET name == Get(node, "name", "Unknown")
        code == JsCodeOf(node)
        unapproved == { namespace \in CtxAccessesIn(code) :
                          /\ namespace \notin ApprovedNamespaces
                          /\ namespace \notin {"response", "error", "result", "data"} }
    IN  IF code = "" THEN NoFinding
        ELSE IF unapproved # {} THEN LintWarn(DiagNamespaces(name, unapproved))
        ELSE NoFinding

critical_fields == <<"event_id">>
recommended_fields == <<"trace_chain">>

\* the fields of fields that no "field:" of the event section names
MissingOf(fields, code) ==
    SelectSeq(fields, LAMBDA field : (field \o ":") \notin CtxPatternsIn(code))

check_ctx_event_required_fields(node) ==
    LET name == Get(node, "name", "Unknown")
        code == JsCodeOf(node)
        missing_critical == MissingOf(critical_fields, code)
        missing_recommended == MissingOf(recommended_fields, code)
    IN  IF code = "" THEN NoFinding
        ELSE IF "ctx:" \notin CtxPatternsIn(code) \/ "event:" \notin CtxPatternsIn(code)
             THEN NoFinding
        ELSE IF missing_critical # <<>>
             THEN LintError(DiagMissingCritical(name, missing_critical))
        ELSE IF missing_recommended # <<>>
             THEN LintWarn(DiagMissingRecommended(name, missing_recommended))
        ELSE LintOk(DiagHasFields(name))

DiagLintNoTrigger ==
    Diag("No trigger node found - cannot verify ctx initialization", 0, <<>>, "", "")
DiagCtxInitialized(name) == Diag("ctx initialized in (Code node)", 0, <<>>, name, "")

\* any(t in node.get("type", "") for t in trigger_types), for the types explored
IsLintTriggerType(type) == type \in {TypeManualTrigger, TypeExecuteWorkflowTrigger}

\* find_node(workflow, name): the nodes of that name, the first one if any
FindNode(w, name) == SelectSeq(Nodes(w), LAMBDA node : Get(node, "name", "") = name)

\* check_ctx_initialization: the nodes after the first trigger on its first
\* main slot; an info for each of them that is a code node holding "ctx:"
check_ctx_initialization(w) ==
    LET triggers == SelectSeq(Nodes(w), LAMBDA node : IsLintTriggerType(Get(node, "type", "")))
        trigger_name == Get(Head(triggers), "name", "")
        i == IndexOfSrc(Connections(w), trigger_name, 1)
        outs == Connections(w)[i].outputs
        j == IndexOfType(outs, "main", 1)
        next_nodes == IF j = 0 THEN <<>> ELSE outs[j].slots[1]
        Info(next_node_name) ==
            LET found == FindNode(w, next_node_name)
            IN  IF /\ found # <<>>
                   /\ get_node_type(Head(found)) = "code"
                   /\ "ctx:" \in CtxPatternsIn(JsCodeOf(Head(found)))
                THEN <<DiagCtxInitialized(next_node_name)>> ELSE <<>>
        Infos[k \in 0..Len(next_nodes)] ==
            IF k = 0 THEN <<>> ELSE Infos[k - 1] \o Info(next_nodes[k])
    IN  IF triggers = <<>> THEN LintWarn(DiagLintNoTrigger)
        ELSE IF i = 0 THEN NoFinding
        ELSE [errors |-> <<>>, warnings |-> <<>>, infos |-> Infos[Len(next_nodes)]]

\* check_merge_node_config, with the infos it leaves alone
lint_merge(node) ==
    LET f == lint_check_merge_node_config(node)
    IN  [errors |-> f.errors, warnings |-> f.warnings, infos |-> <<>>]

\* lint_workflow: what one iteration of "for node in workflow.get('nodes')"
\* adds; the nodes explored are code, merge and trigger nodes
LintNodeFindings(node) ==
    CASE get_node_type(node) = "code" ->
             Added(Added(check_code_node_ctx_pattern(node),
                         check_ctx_namespace_whitelist(node)),
                   check_ctx_event_required_fields(node))
      [] get_node_type(node) = "merge" -> lint_merge(node)
      [] OTHER -> NoFinding

\* check_node_references: one warning for a code node with more than two
\* $('...') references
RECURSIVE check_node_references(_)
check_node_references(nodes) ==
    IF nodes = <<>> THEN NoFinding
    ELSE LET node == Head(nodes)
             name == Get(node, "name", "Unknown")
             refs == ReferencesIn(JsCodeOf(node))
             f == IF get_node_type(node) = "code" /\ refs > 2
                  THEN LintWarn(DiagManyReferences(name, refs)) ELSE NoFinding
         IN  Added(f, check_node_references(Tail(nodes)))

\* Check 2: what one iteration of "for node in nodes" adds to result.errors
NodeErrors(node, workflow_names) ==
    (IF get_node_type(node) = "executeWorkflow"
     THEN check_execute_workflow_config(node, workflow_names) ELSE <<>>)
    \o (IF get_node_type(node) = "switch" THEN check_switch_node_config(node) ELSE <<>>)

\* and to result.warnings
NodeWarnings(node) ==
    check_empty_trigger(node)
    \o (IF get_node_type(node) = "code" THEN check_code_node_return(node) ELSE <<>>)
    \o (IF get_node_type(node) = "postgres" THEN check_postgres_query_params(node) ELSE <<>>)
    \o (IF get_node_type(node) = "merge" THEN check_merge_node_config(node) ELSE <<>>)

RECURSIVE PerNodeErrors(_, _, _)
PerNodeErrors(nodes, workflow_names, i) ==
    IF i > Len(nodes) THEN <<>>
    ELSE NodeErrors(nodes[i], workflow_names) \o PerNodeErrors(nodes, workflow_names, i + 1)

RECURSIVE PerNodeWarnings(_, _)
PerNodeWarnings(nodes, i) ==
    IF i > Len(nodes) THEN <<>>
    ELSE NodeWarnings(nodes[i]) \o PerNodeWarnings(nodes, i + 1)

\* as ResultOf, with one DEAD CODE error for each dead node
ResultOfErrorPerNode(filepath, w, d, workflow_names) ==
    LET names == Sorted(d)
        errors == [i \in 1..Len(names) |-> DiagDeadCode({names[i]})]
                  \o PerNodeErrors(Nodes(w), workflow_names, 1)
                  \o ConnectionErrors(NodeNames(w), Connections(w), 1)
        warnings == (IF Triggers(w) = <<>> THEN <<DiagNoTrigger>> ELSE <<>>)
                    \o PerNodeWarnings(Nodes(w), 1)
    IN  [workflow_name |-> NameOf(w, filepath), filepath |-> filepath,
         errors |-> errors, warnings |-> warnings,
         info |-> IF Len(errors) = 0 /\ Len(warnings) = 0
                  THEN <<DiagAllValidated(Len(Nodes(w)))>> ELSE <<>>,
         dead_nodes |-> d]

\* validate_workflow from the return of find_dead_code to its own return;
\* workflow_names is self._workflow_names
ResultOf(filepath, w, d, workflow_names) ==
    LET errors == (IF d # {} THEN <<DiagDeadCode(d)>> ELSE <<>>)
                  \o PerNodeErrors(Nodes(w), workflow_names, 1)
                  \o ConnectionErrors(NodeNames(w), Connections(w), 1)
        warnings == (IF Triggers(w) = <<>> THEN <<DiagNoTrigger>> ELSE <<>>)
                    \o PerNodeWarnings(Nodes(w), 1)
    IN  [workflow_name |-> NameOf(w, filepath), filepath |-> filepath,
         errors |-> errors, warnings |-> warnings,
         info |-> IF Len(errors) = 0 /\ Len(warnings) = 0
                  THEN <<DiagAllValidated(Len(Nodes(w)))>> ELSE <<>>,
         dead_nodes |-> d]

(***************************************************************************)
(* fix_workflow                                                            *)
(***************************************************************************)
\* as FixSlots, emptying a slot that holds a connection to a dead node
FixSlotsDropSlot(slots, d) ==
    [i \in 1..Len(slots) |->
        IF \E j \in DOMAIN slots[i] : slots[i][j] \in d THEN <<>> ELSE slots[i]]

\* as FixSlots, leaving out the slots that are empty after the pruning: the
\* slots after them move up
FixSlotsCompact(slots, d) ==
    SelectSeq([i \in 1..Len(slots) |-> SelectSeq(slots[i], LAMBDA t : t \notin d)],
              LAMBDA slot : slot # <<>>)

\* new_output_list: each output slot without its connections to dead nodes
FixSlots(slots, d) ==
    [i \in 1..Len(slots) |-> SelectSeq(slots[i], LAMBDA t : t \notin d)]

\* as FixOutputs, leaving the outputs of a surviving source as they are
FixOutputsKeepAll(outputs, d) == outputs

FixOutputs(outputs, d) ==
    [i \in 1..Len(outputs) |->
        [type |-> outputs[i].type, slots |-> FixSlots(outputs[i].slots, d)]]

RECURSIVE FixConnections(_, _, _)
FixConnections(conns, d, i) ==
    IF i > Len(conns) THEN <<>>
    ELSE (IF conns[i].src \in d THEN <<>>
          ELSE << [src |-> conns[i].src, outputs |-> FixOutputs(conns[i].outputs, d)] >>)
         \o FixConnections(conns, d, i + 1)

\* as FixNodes, removing from the list while iterating over it: the node
\* after a removed one is skipped
RECURSIVE RemoveWhileIterating(_, _, _)
RemoveWhileIterating(nodes, d, i) ==
    IF i > Len(nodes) THEN nodes
    ELSE IF nodes[i].name \in d
         THEN RemoveWhileIterating(SubSeq(nodes, 1, i - 1) \o SubSeq(nodes, i + 1, Len(nodes)),
                                   d, i + 1)
         ELSE RemoveWhileIterating(nodes, d, i + 1)

FixNodesSkipping(nodes, d) == RemoveWhileIterating(nodes, d, 1)

FixNodes(nodes, d) == SelectSeq(nodes, LAMBDA n : Get(n, "name", "None") \notin d)

\* the document fix_workflow writes back
FixWorkflow(workflow, d) ==
    [key \in DOMAIN workflow \cup {"nodes", "connections"} |->
        CASE key = "nodes" -> FixNodes(Nodes(workflow), d)
          [] key = "connections" -> FixConnections(Connections(workflow), d, 1)
          [] OTHER -> workflow[key]]

(***************************************************************************)
(* The process: main, validate_all and the files of the workflow directory *)
(***************************************************************************)
EmptyDoc == [name |-> "", settings |-> "", nodes |-> <<>>, connections |-> <<>>]
\* a file json.load parses, a file json.load rejects (JSONDecodeError) and a
\* file open cannot read (IOError)
JsonFile(workflow) == [json |-> TRUE, readable |-> TRUE, workflow |-> workflow]
InvalidFile == [json |-> FALSE, readable |-> TRUE, workflow |-> EmptyDoc]
UnreadableFile == [json |-> FALSE, readable |-> FALSE, workflow |-> EmptyDoc]
\* a file whose bytes are no UTF-8 text (f.read() inside json.load raises
\* UnicodeDecodeError) and a file whose JSON value is no object, such as []
\* (wf.get raises AttributeError): neither is an exception the code catches
UndecodableFile ==
    [json |-> FALSE, readable |-> TRUE, workflow |-> EmptyDoc, raises |-> "UnicodeDecodeError"]
NotObjectFile ==
    [json |-> FALSE, readable |-> TRUE, workflow |-> EmptyDoc, raises |-> "AttributeError"]

\* the exception loading the file raises that no except clause catches, "" if none
Raises(file) == Get(file, "raises", "")

\* a workflow of one node, which is dead, in a file that cannot be opened for
\* writing, and in a file that can no longer be read after validate_workflow
\* has read it (removed or replaced in the meantime)
DeadNodeDoc ==
    [name |-> "Order_Flow", settings |-> "s",
     nodes |-> << [name |-> "N1", type |-> TypeCode] >>, connections |-> <<>>]
ReadOnlyFile ==
    [json |-> TRUE, readable |-> TRUE, workflow |-> DeadNodeDoc, writable |-> FALSE]
VanishingFile ==
    [json |-> TRUE, readable |-> TRUE, workflow |-> DeadNodeDoc, rereadable |-> FALSE]

VARIABLES
    files,           \* the *.json files of the directory in sorted order
    args,            \* [workflow, strict, fix]; workflow = 0: no file argument
    workflow_names,  \* self._workflow_names
    lint,            \* lint_workflow: the nodes still to check and its LintResult
    pc,
    todo,            \* the files still to validate
    cur,             \* the file being validated
    workflow,        \* validate_workflow: the document loaded from it
    queue,           \* find_dead_code: the BFS work queue
    reachable,       \* find_dead_code: the set reachable
    enqueued,        \* find_dead_code: how many names were put in the queue so far
    dead,            \* find_dead_code: the set dead
    result,          \* the ValidationResult of the file being validated
    results,         \* validate_all: results
    total_errors,
    total_warnings,
    exitCode         \* the exit status of the process, -1 while it runs

vars == <<files, args, workflow_names, lint, pc, todo, cur, workflow, queue, reachable, enqueued, dead, result, results,
          total_errors, total_warnings, exitCode>>

bfsVars == <<queue, reachable, enqueued, dead>>
loopVars == <<results, total_errors, total_warnings>>

InitLocals ==
    /\ pc = "construct"
    /\ workflow_names = {}
    /\ lint = [todo |-> <<>>, result |-> NewLintResult]
    /\ cur = 0
    /\ workflow = EmptyDoc
    /\ queue = <<>>
    /\ reachable = {}
    /\ enqueued = 0
    /\ dead = {}
    /\ result = NewResult(0)
    /\ results = <<>>
    /\ total_errors = 0
    /\ total_warnings = 0
    /\ exitCode = -1

Args(file) ==
    { [workflow |-> file, strict |-> strict, fix |-> fix]
      : strict \in BOOLEAN, fix \in BOOLEAN }

\* main with a workflow argument: a document of at most MaxNodes nodes and
\* MaxEdges connection entries, MaxSize together
InitSingle ==
    /\ \E k \in 0..MaxNodes : \E ns \in NodeLists(k) :
       \E idx \in IndexSeqs(EdgeCount(EndSeq(k)), Min(MaxEdges, MaxSize - k)) :
           files = << JsonFile(DocOf(ns, EndSeq(k), idx)) >>
    /\ args \in Args(1)
    /\ todo = <<1>>
    /\ InitLocals

\* main with a workflow argument: a document with one node of each type and
\* at most MaxEdges connection entries between them
InitSingleEachType ==
    /\ \E idx \in IndexSeqs(EdgeCount(NameSeq(Len(NodeTypeSeq))), MaxEdges) :
           files = << JsonFile(DocOf([i \in 1..Len(NodeTypeSeq) |->
                                         [name |-> NodeNameSeq[i], type |-> NodeTypeSeq[i]]],
                                     NameSeq(Len(NodeTypeSeq)), idx)) >>
    /\ args \in Args(1)
    /\ todo = <<1>>
    /\ InitLocals

\* the file contents of at most size nodes and connection entries
FilesUpTo(size) ==
    {InvalidFile, UnreadableFile, UndecodableFile, NotObjectFile}
    \cup { file \in {ReadOnlyFile, VanishingFile} : SizeOf(file.workflow) <= size }
    \cup UNION { { JsonFile(w) : w \in DocsOfSize(s) } : s \in 0..size }

SizeOfFile(file) == IF file.json THEN SizeOf(file.workflow) ELSE 0

\* the directories of at most n more files after the files fs, of at most
\* size nodes and connection entries together
RECURSIVE DirectoryIs(_, _, _)
DirectoryIs(fs, n, size) ==
    \/ files = fs
    \/ /\ n > 0
       /\ \E file \in FilesUpTo(size) :
              DirectoryIs(Append(fs, file), n - 1, size - SizeOfFile(file))

\* main without one: validate_all over the directory
InitAll ==
    /\ DirectoryIs(<<>>, MaxFiles, DirMaxSize)
    /\ args \in Args(0)
    /\ todo = [i \in 1..Len(files) |-> i]
    /\ InitLocals

Init == InitSingle \/ InitSingleEachType \/ InitAll

(***************************************************************************)
(* Documents for the per-node checks: an optional trigger followed by      *)
(* nodes with the parameters the checks read, in the shapes validate_      *)
(* workflow distinguishes (keys absent, archived, names repeated).         *)
(***************************************************************************)
TriggerNodeSeq ==
    << [type |-> TypeManualTrigger],
       [type |-> TypeExecuteWorkflowTrigger],
       [type |-> TypeExecuteWorkflowTrigger, parameters |-> [inputSource |-> "passthrough"]] >>

ExecuteWorkflowNodeSeq ==
    << [type |-> TypeExecuteWorkflow],
       [type |-> TypeExecuteWorkflow, parameters |-> [workflowId |-> EmptyObject]],
       [type |-> TypeExecuteWorkflow,
        parameters |-> [workflowId |-> [mode |-> "list", value |-> "w1"]]],
       [type |-> TypeExecuteWorkflow,
        parameters |-> [workflowId |-> [mode |-> "list", cachedResultName |-> "Other"]]],
       [type |-> TypeExecuteWorkflow,
        parameters |-> [workflowId |-> [mode |-> "id", value |-> "w1"]]],
       [type |-> TypeExecuteWorkflow,
        parameters |-> [workflowId |-> [mode |-> "id", cachedResultName |-> "Other"]]],
       [type |-> TypeExecuteWorkflow,
        parameters |-> [workflowId |-> [value |-> "w1"]]] >>

SwitchWith(version, fallback) ==
    [type |-> TypeSwitch, typeVersion |-> version,
     parameters |-> [options |-> [fallbackOutput |-> fallback]]]

SwitchNodeSeq ==
    << [type |-> TypeSwitch, parameters |-> [options |-> [fallbackOutput |-> JsonStr("maybe")]]],
       SwitchWith(2, JsonStr("maybe")),
       SwitchWith(2, JsonBool(TRUE)),
       [type |-> TypeSwitch, typeVersion |-> 3, parameters |-> [options |-> EmptyObject]],
       SwitchWith(3, JsonNull),
       SwitchWith(3, JsonStr("extra")),
       SwitchWith(3, JsonStr("none")),
       SwitchWith(3, JsonStr("maybe")),
       SwitchWith(3, JsonBool(TRUE)) >>

MergeNodeSeq ==
    << [type |-> TypeMerge],
       [type |-> TypeMerge, parameters |-> EmptyObject],
       [type |-> TypeMerge, parameters |-> [mode |-> "append"]],
       [type |-> TypeMerge, parameters |-> [numberInputs |-> 2]] >>

CodeNodeSeq ==
    << [type |-> TypeCode],
       [type |-> TypeCode, parameters |-> [jsCode |-> CodeReturnsArray]],
       [type |-> TypeCode,
        parameters |-> [mode |-> "runOnceForEachItem", jsCode |-> CodeReturnsObject]],
       [type |-> TypeCode,
        parameters |-> [mode |-> "runOnceForEachItem", jsCode |-> CodeReturnsArray]],
       [type |-> TypeCode,
        parameters |-> [mode |-> "runOnceForEachItem", jsCode |-> CodeReturnsJsonArray]],
       [type |-> TypeCode,
        parameters |-> [mode |-> "runOnceForEachItem", jsCode |-> CodeSpreadsInput]] >>

CheckedNodeSeq == ExecuteWorkflowNodeSeq \o SwitchNodeSeq \o MergeNodeSeq \o CodeNodeSeq

\* the node with the fields of node and the name name
Named(node, name) ==
    [key \in DOMAIN node \cup {"name"} |-> IF key = "name" THEN name ELSE node[key]]

\* node i connected to node i + 1, for the nodes named names
ChainOf(names) ==
    [i \in 1..(Len(names) - 1) |->
        [src |-> names[i], outputs |-> << [type |-> "main", slots |-> << <<names[i + 1]>> >>] >>]]

\* the keys of obj but key
Without(obj, key) == [k \in DOMAIN obj \ {key} |-> obj[k]]

ShapeSeq == <<"chain", "unconnected", "no nodes", "no connections", "no name", "archived",
              "same name", "same name, trigger last", "dangling",
              "archived, unconnected", "archived, dangling">>

\* the document doc with "isArchived": true
Archived(doc) ==
    [key \in DOMAIN doc \cup {"isArchived"} |-> IF key = "isArchived" THEN TRUE ELSE doc[key]]

Reverse(seq) == [i \in 1..Len(seq) |-> seq[Len(seq) + 1 - i]]

\* the document of the nodes ns (without their names) in the shape shape
ShapedDoc(ns, shape) ==
    LET names == NameSeq(Len(ns))
        nodes == [i \in 1..Len(ns) |-> Named(ns[i], names[i])]
        chain == [name |-> "Order_Flow", settings |-> "s", nodes |-> nodes,
                  connections |-> ChainOf(names)]
        dangling == [chain EXCEPT !.connections =
                        Append(@, [src |-> names[Len(names)],
                                   outputs |-> << [type |-> "main",
                                                   slots |-> << <<Missing>> >>] >>])]
    IN  CASE shape = "unconnected" -> [chain EXCEPT !.connections = <<>>]
          [] shape = "no nodes" -> Without([chain EXCEPT !.connections = <<>>], "nodes")
          [] shape = "no connections" -> Without(chain, "connections")
          [] shape = "no name" -> Without(chain, "name")
          [] shape = "archived" -> Archived(chain)
          [] shape = "archived, unconnected" -> Archived([chain EXCEPT !.connections = <<>>])
          [] shape = "archived, dangling" -> Archived(dangling)
          [] shape = "same name" ->
                 [chain EXCEPT !.nodes = [i \in 1..Len(ns) |-> Named(ns[i], "N1")],
                               !.connections = <<>>]
          [] shape = "same name, trigger last" ->
                 [chain EXCEPT !.nodes = Reverse([i \in 1..Len(ns) |-> Named(ns[i], "N1")]),
                               !.connections = <<>>]
          [] shape = "dangling" -> dangling
          [] OTHER -> chain

\* the workflow the executeWorkflow nodes refer to
OtherDoc ==
    [name |-> "Other", settings |-> "s",
     nodes |-> << [name |-> "N1", type |-> TypeExecuteWorkflowTrigger,
                   parameters |-> [inputSource |-> "passthrough"]] >>,
     connections |-> <<>>]

\* main with or without a workflow argument, on a directory of one such
\* document, alone or together with the workflow its nodes refer to
InitChecks ==
    /\ \E t \in 0..Len(TriggerNodeSeq) :
       \E idx \in IndexSeqs(Len(CheckedNodeSeq), ChecksMaxNodes) :
       \E sh \in DOMAIN ShapeSeq :
           LET ns == (IF t = 0 THEN <<>> ELSE <<TriggerNodeSeq[t]>>)
                     \o [i \in 1..Len(idx) |-> CheckedNodeSeq[idx[i]]]
               file == JsonFile(ShapedDoc(ns, ShapeSeq[sh]))
           IN  /\ ns # <<>>
               /\ files \in { <<file>>, <<file, JsonFile(OtherDoc)>>, <<file, UndecodableFile>> }
    /\ args \in Args(0) \cup Args(1)
    /\ todo = IF args.workflow = 0 THEN [i \in 1..Len(files) |-> i] ELSE <<1>>
    /\ InitLocals

\* _load_workflow_names on the directory fs: the names of its files that parse
WorkflowNamesOf(fs) ==
    { NameOf(fs[i].workflow, i) : i \in { j \in DOMAIN fs : fs[j].json } }

\* WorkflowIntegrityValidator(args.workflow_dir): _load_workflow_names runs
\* over the files of the directory and skips those it catches an exception for
LoadWorkflowNames ==
    /\ pc = "construct"
    /\ \A i \in DOMAIN files : Raises(files[i]) = ""
    /\ workflow_names' = WorkflowNamesOf(files)
    /\ pc' = "validate"
    /\ UNCHANGED <<files, args, lint, todo, cur, workflow, bfsVars, result, loopVars, exitCode>>

\* a file raises an exception that "except (json.JSONDecodeError, IOError)"
\* does not catch: it leaves the constructor and main, and the interpreter
\* exits with 1.  No validator object exists; the names read so far are lost.
LoadWorkflowNamesRaises ==
    /\ pc = "construct"
    /\ \E i \in DOMAIN files : Raises(files[i]) # ""
    /\ pc' = "crashed"
    /\ exitCode' = 1
    /\ UNCHANGED <<files, args, lint, workflow_names, todo, cur, workflow, bfsVars, result, loopVars>>

\* as IsArchived, for a validator that analyses the archived workflows too
IsArchivedIgnored(w) == FALSE

\* workflow.get("isArchived", False)
IsArchived(w) == Get(w, "isArchived", FALSE)

\* validate_workflow up to the BFS loop of find_dead_code, or to its return
\* for a file that does not load and for an archived workflow
ValidateStart ==
    /\ pc = "validate"
    /\ todo # <<>>
    /\ cur' = Head(todo)
    /\ todo' = Tail(todo)
    /\ workflow' = files[Head(todo)].workflow
    /\ IF Raises(files[Head(todo)]) # ""
       THEN \* the exception leaves validate_workflow and main
            /\ pc' = "crashed"
            /\ exitCode' = 1
            /\ UNCHANGED <<bfsVars, result>>
       ELSE IF ~files[Head(todo)].json
       THEN /\ result' = [NewResult(Head(todo)) EXCEPT
                              !.errors = IF files[Head(todo)].readable
                                         THEN <<DiagInvalidJson>> ELSE <<DiagCannotRead>>]
            /\ pc' = "validated"
            /\ UNCHANGED bfsVars
       ELSE IF IsArchived(files[Head(todo)].workflow)
       THEN /\ result' = [NewResult(Head(todo)) EXCEPT
                              !.workflow_name = NameOf(files[Head(todo)].workflow, Head(todo)),
                              !.info = <<DiagArchived>>]
            /\ pc' = "validated"
            /\ UNCHANGED bfsVars
       ELSE /\ queue' = Triggers(files[Head(todo)].workflow)
            /\ reachable' = {}
            /\ enqueued' = Len(Triggers(files[Head(todo)].workflow))
            /\ dead' = {}
            /\ result' = [NewResult(Head(todo)) EXCEPT
                              !.workflow_name = NameOf(files[Head(todo)].workflow, Head(todo))]
            /\ pc' = "bfs"
    /\ Raises(files[Head(todo)]) = "" => exitCode' = exitCode
    /\ UNCHANGED <<files, args, lint, workflow_names, loopVars>>

\* the count of queue.append calls is kept up to MaxEnqueued, more than the
\* names a traversal of an explored document puts in the queue
MaxEnqueued == 2 * (MaxNodes + MaxEdges) + 1

\* one iteration of "while queue"
BfsStep ==
    /\ pc = "bfs"
    /\ queue # <<>>
    /\ LET next == BfsIteration(Graph(workflow), queue, reachable)
       IN  /\ queue' = next.queue
           /\ reachable' = next.reachable
           /\ enqueued' = Min(enqueued + (Len(next.queue) - Len(Tail(queue))), MaxEnqueued)
    /\ UNCHANGED <<files, args, lint, workflow_names, pc, todo, cur, workflow, dead, result, loopVars, exitCode>>

\* the loop is left: dead = set(nodes.keys()) - reachable
BfsDone ==
    /\ pc = "bfs"
    /\ queue = <<>>
    /\ dead' = DeadBeforeRescue(workflow, reachable)
    /\ pc' = "rescue"
    /\ UNCHANGED <<files, args, lint, workflow_names, todo, cur, workflow, queue, reachable, enqueued, result, loopVars, exitCode>>

\* nodes[name] for a name of reachable that is no node: the KeyError leaves
\* find_dead_code, validate_workflow and main, and the interpreter exits with 1.
\* "for name in reachable" iterates in hash order: with a reachable chain node
\* the unknown name may or may not come before it.
FindDeadCodeRaises ==
    /\ pc = "rescue"
    /\ Unknown(workflow, reachable) # {}
    /\ pc' = "crashed"
    /\ exitCode' = 1
    /\ UNCHANGED <<files, args, lint, workflow_names, todo, cur, workflow, bfsVars, result, loopVars>>

\* as ValidateFinish, for a validator that with --strict reports the warnings
\* as errors
ValidateFinishStrict ==
    /\ pc = "rescue"
    /\ Unknown(workflow, reachable) # {} => ReachableChains(workflow, reachable) # {}
    /\ dead' = DeadAfterRescue(workflow, reachable, dead)
    /\ result' = LET r == ResultOf(cur, workflow, dead', workflow_names)
                 IN  IF args.strict
                     THEN [r EXCEPT !.errors = r.errors \o r.warnings, !.warnings = <<>>]
                     ELSE r
    /\ pc' = "validated"
    /\ UNCHANGED <<files, args, lint, workflow_names, todo, cur, workflow, queue, reachable, enqueued, loopVars,
                   exitCode>>

\* find_dead_code returns and validate_workflow runs to its end
ValidateFinish ==
    /\ pc = "rescue"
    /\ Unknown(workflow, reachable) # {} => ReachableChains(workflow, reachable) # {}
    /\ dead' = DeadAfterRescue(workflow, reachable, dead)
    /\ result' = ResultOf(cur, workflow, dead', workflow_names)
    /\ pc' = "validated"
    /\ UNCHANGED <<files, args, lint, workflow_names, todo, cur, workflow, queue, reachable, enqueued, loopVars, exitCode>>

\* fix_workflow(filepath, r) on the file file: "fixed" when it returns True,
\* "unchanged" when it returns False, "raises" when open(filepath, "w") raises
FixOutcome(file, r) ==
    IF r.dead_nodes = {} THEN "unchanged"
    ELSE IF ~file.json \/ ~Get(file, "rereadable", TRUE) THEN "unchanged"
    ELSE IF ~Get(file, "writable", TRUE) THEN "raises"
    ELSE "fixed"

\* "if fix and result.dead_nodes: fix_workflow(filepath, result)" raises
FixRaises == args.fix /\ result.dead_nodes # {} /\ FixOutcome(files[cur], result) = "raises"

\* as FilesAfterFix, removing the nodes of the names in result.dead_nodes from
\* every document of the directory
FilesAfterFixEveryFile ==
    IF args.fix /\ result.dead_nodes # {} /\ FixOutcome(files[cur], result) = "fixed"
    THEN [i \in DOMAIN files |->
             IF files[i].json
             THEN JsonFile(FixWorkflow(files[i].workflow, result.dead_nodes)) ELSE files[i]]
    ELSE files

\* the files after it
FilesAfterFix ==
    IF args.fix /\ result.dead_nodes # {} /\ FixOutcome(files[cur], result) = "fixed"
    THEN [files EXCEPT ![cur] = JsonFile(FixWorkflow(files[cur].workflow, result.dead_nodes))]
    ELSE files

\* as Status, looking at the warnings before the errors
StatusWarningsFirst(r) ==
    IF Len(r.warnings) > 0 THEN "WARN" ELSE IF Len(r.errors) > 0 THEN "FAIL" ELSE "PASS"

\* the status validate_all prints for a result
Status(r) ==
    IF Len(r.errors) > 0 THEN "FAIL" ELSE IF Len(r.warnings) > 0 THEN "WARN" ELSE "PASS"

ExitCodeFor(errors, strict, warnings) ==
    IF errors THEN 1 ELSE IF strict /\ warnings THEN 2 ELSE 0

\* main, single workflow: report, fix, exit
SingleFinish ==
    /\ pc = "validated"
    /\ args.workflow # 0
    /\ files' = FilesAfterFix
    /\ IF FixRaises
       THEN \* the exception leaves fix_workflow and main
            /\ exitCode' = 1
            /\ pc' = "crashed"
       ELSE /\ exitCode' = ExitCodeFor(Len(result.errors) > 0, args.strict,
                                       Len(result.warnings) > 0)
            /\ pc' = "exited"
    /\ UNCHANGED <<args, lint, workflow_names, todo, cur, workflow, bfsVars, result, loopVars>>

\* validate_all: the rest of one iteration of the loop over the files
AllAccumulate ==
    /\ pc = "validated"
    /\ args.workflow = 0
    /\ results' = Append(results, result)
    /\ total_errors' = total_errors + Len(result.errors)
    /\ total_warnings' = total_warnings + Len(result.warnings)
    /\ files' = FilesAfterFix
    /\ IF FixRaises
       THEN \* the exception leaves fix_workflow, validate_all and main
            /\ exitCode' = 1
            /\ pc' = "crashed"
       ELSE /\ exitCode' = exitCode
            /\ pc' = "validate"
    /\ UNCHANGED <<args, lint, workflow_names, todo, cur, workflow, bfsVars, result>>

\* validate_all after the loop, and main's exit
AllFinish ==
    /\ pc = "validate"
    /\ todo = <<>>
    /\ exitCode' = ExitCodeFor(total_errors > 0, args.strict, total_warnings > 0)
    /\ pc' = "exited"
    /\ UNCHANGED <<files, args, lint, workflow_names, todo, cur, workflow, bfsVars, result, loopVars>>

Next ==
    \/ LoadWorkflowNames
    \/ LoadWorkflowNamesRaises
    \/ ValidateStart
    \/ BfsStep
    \/ BfsDone
    \/ FindDeadCodeRaises
    \/ ValidateFinish
    \/ SingleFinish
    \/ AllAccumulate
    \/ AllFinish

Spec == Init /\ [][Next]_vars

\* the same process on the documents for the per-node checks
ChecksSpec == InitChecks /\ [][Next]_vars

\* The traversal on its own: validate_workflow of one document from its call
\* to the end of the BFS loop of find_dead_code.  The process is sequential:
\* it takes its next step whenever it has one.
InitTraversal ==
    /\ InitSingle \/ InitSingleEachType
    /\ ~args.strict
    /\ ~args.fix

NextTraversal ==
    \/ LoadWorkflowNames
    \/ ValidateStart
    \/ BfsStep
    \/ BfsDone

TraversalSpec == InitTraversal /\ [][NextTraversal]_vars /\ WF_vars(NextTraversal)

(***************************************************************************)
(* workflows/lint_workflows.py: lint_workflow of one file                  *)
(***************************************************************************)
LintCodeSeq ==
    <<CodeReturnsObject, CodeCtxBoth, CodeCtxEventIdOnly, CodeCtxTraceChainOnly,
      CodeCtxNeither, CodeCtxNoEvent, CodeFlatResponse, CodeFlatAccess>>

LintNodeSeq ==
    <<[type |-> TypeCode]>>
    \o [i \in DOMAIN LintCodeSeq |-> [type |-> TypeCode, parameters |-> [jsCode |-> LintCodeSeq[i]]]]
    \o MergeNodeSeq

\* the nodes kinds with the names N1, N2, ...
NamedSeq(kinds) == [i \in DOMAIN kinds |-> Named(kinds[i], NodeNameSeq[i])]

\* documents of a trigger or none and up to LintMaxNodes code and merge
\* nodes, the trigger connected to the node after it or to none
LintDocs ==
    UNION { { [name |-> "Order_Flow", nodes |-> NamedSeq(ns)],
              [name |-> "Order_Flow", nodes |-> NamedSeq(<<[type |-> TypeManualTrigger]>> \o ns)],
              [name |-> "Order_Flow", nodes |-> NamedSeq(<<[type |-> TypeManualTrigger]>> \o ns),
               connections |-> ChainOf(<<"N1", "N2">>)] }
            : ns \in UNION { [1..k -> { LintNodeSeq[i] : i \in DOMAIN LintNodeSeq }]
                             : k \in 1..LintMaxNodes } }

InitLint ==
    /\ files \in { <<JsonFile(doc)>> : doc \in LintDocs } \cup { <<InvalidFile>> }
    /\ args = [workflow |-> 1, strict |-> FALSE, fix |-> FALSE]
    /\ workflow_names = {}
    /\ lint = [todo |-> <<>>, result |-> NewLintResult]
    /\ pc = "lint"
    /\ todo = <<>>
    /\ cur = 1
    /\ workflow = EmptyDoc
    /\ queue = <<>>
    /\ reachable = {}
    /\ enqueued = 0
    /\ dead = {}
    /\ result = NewResult(0)
    /\ results = <<>>
    /\ total_errors = 0
    /\ total_warnings = 0
    /\ exitCode = -1

lintUnchanged ==
    <<files, args, workflow_names, todo, cur, bfsVars, result, loopVars, exitCode>>

\* lint_workflow up to its loop: json.load, then check_ctx_initialization
LintStart ==
    /\ pc = "lint"
    /\ IF ~files[cur].json
       THEN /\ lint' = [todo |-> <<>>, result |-> LintError(DiagInvalidJson)]
            /\ pc' = "linted"
            /\ UNCHANGED workflow
       ELSE /\ workflow' = files[cur].workflow
            /\ lint' = [todo |-> Nodes(files[cur].workflow),
                        result |-> check_ctx_initialization(files[cur].workflow)]
            /\ pc' = "lint nodes"
    /\ UNCHANGED lintUnchanged

\* one iteration of "for node in workflow.get('nodes', [])"
LintNode ==
    /\ pc = "lint nodes"
    /\ lint.todo # <<>>
    /\ lint' = [todo |-> Tail(lint.todo),
                result |-> Added(lint.result, LintNodeFindings(Head(lint.todo)))]
    /\ UNCHANGED <<pc, workflow>>
    /\ UNCHANGED lintUnchanged

\* after the loop: check_node_references, return result
LintFinish ==
    /\ pc = "lint nodes"
    /\ lint.todo = <<>>
    /\ lint' = [lint EXCEPT !.result = Added(@, check_node_references(Nodes(workflow)))]
    /\ pc' = "linted"
    /\ UNCHANGED workflow
    /\ UNCHANGED lintUnchanged

NextLint ==
    \/ LintStart
    \/ LintNode
    \/ LintFinish

LintSpec == InitLint /\ [][NextLint]_vars

(***************************************************************************)
(* Reference notions the properties are stated with: the graph whose       *)
(* vertices are the nodes of the document and whose edges are its          *)
(* connection entries of whatever output type and slot.                    *)
(***************************************************************************)
TriggerSet(w) == { n \in NodeNames(w) : IsTriggerType(NodeNamed(w, n).type) }
ChainSet(w) == { n \in NodeNames(w) : IsChainType(NodeNamed(w, n).type) }
ModelSet(w) == { n \in NodeNames(w) : IsModelType(NodeNamed(w, n).type) }

\* s has a connection entry to t
HasEdge(w, s, t) ==
    \E i \in DOMAIN Connections(w) :
        /\ Connections(w)[i].src = s
        /\ \E o \in DOMAIN Connections(w)[i].outputs :
           \E sl \in DOMAIN Connections(w)[i].outputs[o].slots :
           \E j \in DOMAIN Connections(w)[i].outputs[o].slots[sl] :
               Connections(w)[i].outputs[o].slots[sl][j] = t

Successors(w, S) == { t \in NodeNames(w) : \E s \in S : HasEdge(w, s, t) }

RECURSIVE ReachableFrom(_, _)
ReachableFrom(w, S) ==
    IF Successors(w, S) \subseteq S THEN S ELSE ReachableFrom(w, S \cup Successors(w, S))

\* the nodes reachable from a trigger
Live(w) == ReachableFrom(w, TriggerSet(w))

\* the nodes on a cycle of connections
OnCycle(w, n) == n \in ReachableFrom(w, Successors(w, {n}))

\* find_dead_code run to its end: the reachable set and the dead set it returns
RECURSIVE BfsRun(_, _, _)
BfsRun(graph, q, r) ==
    IF q = <<>> THEN r
    ELSE LET next == BfsIteration(graph, q, r)
         IN  BfsRun(graph, next.queue, next.reachable)

DeadSetOf(w) ==
    LET r == BfsRun(Graph(w), Triggers(w), {})
    IN  DeadAfterRescue(w, r, DeadBeforeRescue(w, r))

\* -------------------------------------------------------------------------
\* C1: when the traversal of find_dead_code ends, the nodes it has marked
\* reachable are exactly the nodes reachable from a trigger along connection
\* entries (of every output type and slot), and the dead set, before the AI
\* model exception, is exactly the other nodes.
C1_ReachableIsClosure ==
    pc = "rescue" =>
        /\ reachable \cap NodeNames(workflow) = Live(workflow)
        /\ dead = NodeNames(workflow) \ Live(workflow)

\* a traversal that went through a second slot and a second output type,
\* reached a node that is no trigger, and left a node dead
C1_Witness ==
    /\ pc = "rescue"
    /\ dead # {}
    /\ reachable \ TriggerSet(workflow) # {}
    /\ \E n \in reachable \cap NodeNames(workflow) :
           /\ n \notin TriggerSet(workflow)
           /\ \E i \in DOMAIN Connections(workflow) :
              \E o \in DOMAIN Connections(workflow)[i].outputs :
                  /\ Connections(workflow)[i].outputs[o].type = "ai_languageModel"
                  /\ Connections(workflow)[i].outputs[o].slots[1] = <<n>>
    /\ \E i \in DOMAIN Connections(workflow) :
       \E o \in DOMAIN Connections(workflow)[i].outputs :
           /\ Len(Connections(workflow)[i].outputs[o].slots) = 2
           /\ Connections(workflow)[i].outputs[o].slots[2] # <<>>
           /\ Connections(workflow)[i].outputs[o].slots[2][1] \in reachable

\* -------------------------------------------------------------------------
\* C2: the dead set find_dead_code returns holds only nodes of the document
\* and no trigger; for a document of one trigger, no other node and no
\* connections it is empty.
C2_TriggersNeverDead ==
    (pc = "validated" /\ files[cur].json) =>
        /\ dead \subseteq NodeNames(workflow) \ TriggerSet(workflow)
        /\ result.dead_nodes = dead
        /\ (Len(Nodes(workflow)) = 1 /\ TriggerSet(workflow) # {}
            /\ Connections(workflow) = <<>>) => dead = {}

\* a returned dead set that is not empty, of a document with a trigger that
\* nothing leads to
C2_Witness ==
    /\ pc = "validated"
    /\ files[cur].json
    /\ dead # {}
    /\ \E t \in TriggerSet(workflow) :
           \A s \in NodeNames(workflow) \cup {Missing} : ~HasEdge(workflow, s, t)

\* -------------------------------------------------------------------------
\* C3: the traversal of find_dead_code ends, also on documents whose
\* connections form cycles or self-loops, and when it has ended every node
\* that is on a cycle and reachable from a trigger is in the reachable set
\* and not in the dead set.
CycleNodesReached ==
    pc = "rescue" =>
        \A n \in Live(workflow) :
            OnCycle(workflow, n) => n \in reachable /\ n \notin dead

C3_TraversalTerminates ==
    /\ (pc = "bfs") ~> (pc = "rescue")
    /\ []CycleNodesReached

\* the traversal has ended on a document with a cycle of two nodes that is
\* reachable from a trigger
C3_Witness ==
    /\ pc = "rescue"
    /\ \E a \in Live(workflow) : \E b \in Live(workflow) :
           /\ a # b
           /\ HasEdge(workflow, a, b)
           /\ HasEdge(workflow, b, a)
           /\ {a, b} \subseteq reachable
           /\ {a, b} \cap dead = {}

\* -------------------------------------------------------------------------
\* C4: if a chain/agent node is reachable from a trigger, the returned dead
\* set holds no AI model node, whatever its connections; if none is, every
\* AI model node not reachable from a trigger is in the returned dead set.
C4_ChainRescuesModels ==
    (pc = "validated" /\ files[cur].json) =>
        IF Live(workflow) \cap ChainSet(workflow) # {}
        THEN result.dead_nodes \cap ModelSet(workflow) = {}
        ELSE ModelSet(workflow) \ Live(workflow) \subseteq result.dead_nodes

\* a reachable chain node, and a model node without any connection that is
\* not in the returned dead set although another node is
C4_Witness ==
    /\ pc = "validated"
    /\ files[cur].json
    /\ Live(workflow) \cap ChainSet(workflow) # {}
    /\ result.dead_nodes # {}
    /\ \E m \in ModelSet(workflow) :
           /\ m \notin result.dead_nodes
           /\ m \notin Live(workflow)
           /\ \A n \in NodeNames(workflow) \cup {Missing} :
                  ~HasEdge(workflow, n, m) /\ ~HasEdge(workflow, m, n)

\* -------------------------------------------------------------------------
\* The file cur has been validated and, its dead set not being empty, fixed:
\* workflow is the document as validated, files[cur] the document written.
Fixed ==
    /\ pc \in {"validate", "exited"}
    /\ cur # 0
    /\ args.fix
    /\ result.dead_nodes # {}
    /\ FixOutcome(files[cur], result) = "fixed"

FixedDoc == files[cur].workflow

AllNames(w) == NodeNames(w) \cup {Missing} \cup { Connections(w)[i].src : i \in DOMAIN Connections(w) }

\* C5: fix_workflow applied to its own output with the same dead set leaves
\* the document as it is, and find_dead_code finds no dead node in the fixed
\* document.
C5_FixIdempotent ==
    Fixed =>
        /\ FixWorkflow(FixedDoc, result.dead_nodes) = FixedDoc
        /\ DeadSetOf(FixedDoc) = {}

\* a fix that removed two nodes and kept others and a connection entry
C5_Witness ==
    /\ Fixed
    /\ Cardinality(result.dead_nodes) >= 2
    /\ Nodes(FixedDoc) # <<>>
    /\ Connections(FixedDoc) # <<>>
    /\ FixedDoc # workflow

\* -------------------------------------------------------------------------
\* C6: after fix_workflow the document holds no dead node, no connections
\* entry of a dead source and, inside the entries of the surviving sources,
\* no connection to a dead node.
C6_NoDeadLeft ==
    Fixed =>
        /\ \A i \in DOMAIN Nodes(FixedDoc) : Nodes(FixedDoc)[i].name \notin result.dead_nodes
        /\ \A i \in DOMAIN Connections(FixedDoc) :
               Connections(FixedDoc)[i].src \notin result.dead_nodes
        /\ \A s \in AllNames(FixedDoc) : \A t \in result.dead_nodes : ~HasEdge(FixedDoc, s, t)

\* a fix that dropped the entry of a dead source and pruned a connection to a
\* dead node inside the entry of a surviving source
C6_Witness ==
    /\ Fixed
    /\ \E i \in DOMAIN Connections(workflow) : Connections(workflow)[i].src \in result.dead_nodes
    /\ \E s \in AllNames(workflow) \ result.dead_nodes :
       \E t \in result.dead_nodes :
           HasEdge(workflow, s, t) /\ ~HasEdge(FixedDoc, s, t)

\* -------------------------------------------------------------------------
\* C7: fix_workflow keeps every node that is not dead, unchanged and in the
\* original order, keeps every connection whose source and target are not
\* dead, in its output type and slot, and leaves name and settings alone.
Count(seq, x) == Cardinality({ j \in DOMAIN seq : seq[j] = x })

\* the slot number sl of the output type ty of source s, <<>> if there is none
SlotOf(w, s, ty, sl) ==
    LET i == IndexOfSrc(Connections(w), s, 1)
        o == IF i = 0 THEN 0 ELSE IndexOfType(Connections(w)[i].outputs, ty, 1)
    IN  IF o = 0 \/ sl > Len(Connections(w)[i].outputs[o].slots) THEN <<>>
        ELSE Connections(w)[i].outputs[o].slots[sl]

KeptNodes(w, d) == { i \in DOMAIN Nodes(w) : Nodes(w)[i].name \notin d }

C7_FixFrame ==
    Fixed =>
        LET d == result.dead_nodes
            kept == KeptNodes(workflow, d)
        IN  /\ Len(Nodes(FixedDoc)) = Cardinality(kept)
            /\ \A i \in kept :
                   Nodes(FixedDoc)[Cardinality({ j \in kept : j <= i })] = Nodes(workflow)[i]
            /\ \A s \in AllNames(workflow) \ d : \A t \in AllNames(workflow) \ d :
               \A o \in DOMAIN OutputSeq :
                   Count(SlotOf(FixedDoc, s, OutputSeq[o].type, OutputSeq[o].slot), t)
                     = Count(SlotOf(workflow, s, OutputSeq[o].type, OutputSeq[o].slot), t)
            /\ FixedDoc.name = workflow.name
            /\ FixedDoc.settings = workflow.settings
            /\ DOMAIN FixedDoc = DOMAIN workflow

\* a fix that removed a node, kept another, and kept a connection that
\* shared its slot with a connection to a dead node
C7_Witness ==
    /\ Fixed
    /\ Nodes(FixedDoc) # <<>>
    /\ \E s \in AllNames(workflow) \ result.dead_nodes :
       \E o \in DOMAIN OutputSeq :
           LET before == SlotOf(workflow, s, OutputSeq[o].type, OutputSeq[o].slot)
               after == SlotOf(FixedDoc, s, OutputSeq[o].type, OutputSeq[o].slot)
           IN  /\ \E j \in DOMAIN before : before[j] \in result.dead_nodes
               /\ after # <<>>

\* -------------------------------------------------------------------------
\* C8: in both modes the exit code of a process that has validated a
\* document is 1 iff a validated document has an error diagnostic, otherwise
\* 2 iff one has a warning and --strict was given, otherwise 0.
\* the results the process has collected when it ends
Collected == IF args.workflow # 0 THEN <<result>> ELSE results

AnyError == \E i \in DOMAIN Collected : Len(Collected[i].errors) > 0
AnyWarning == \E i \in DOMAIN Collected : Len(Collected[i].warnings) > 0

C8_ExitCodeFromDiagnostics ==
    (exitCode # -1 /\ cur # 0) =>
        exitCode = (IF AnyError THEN 1 ELSE IF args.strict /\ AnyWarning THEN 2 ELSE 0)

\* C8, for the runs that reach sys.exit: there the exit code is as claimed
C8_ExitCodeAtSysExit ==
    pc = "exited" =>
        exitCode = (IF AnyError THEN 1 ELSE IF args.strict /\ AnyWarning THEN 2 ELSE 0)

\* -------------------------------------------------------------------------
\* C9: with --fix, a document whose dead set is not empty is fixed and then
\* validated and reported again: the results and the exit code of the run
\* are those of the documents as fixed.
ResultAfterFix(i) ==
    ResultOf(i, files[i].workflow, DeadSetOf(files[i].workflow), workflow_names)

\* the collected results, those of the fixed documents taken again
ResultsAfterFix ==
    [i \in DOMAIN Collected |->
        IF Collected[i].dead_nodes # {}
        THEN ResultAfterFix(Collected[i].filepath) ELSE Collected[i]]

C9_ReportsFixedDocument ==
    (pc = "exited" /\ args.fix) =>
        /\ Collected = ResultsAfterFix
        /\ exitCode = ExitCodeFor(
               \E i \in DOMAIN ResultsAfterFix : Len(ResultsAfterFix[i].errors) > 0,
               args.strict,
               \E i \in DOMAIN ResultsAfterFix : Len(ResultsAfterFix[i].warnings) > 0)

\* -------------------------------------------------------------------------
\* C10: a dead set that is not empty gives exactly one DEAD CODE error, which
\* names every dead node, result.dead_nodes is the dead set and the status is
\* FAIL; an empty dead set gives no DEAD CODE diagnostic.
DeadCodeDiags(seq) == { i \in DOMAIN seq : seq[i].kind = "DEAD CODE" }

C10_OneDeadCodeError ==
    (pc = "validated" /\ files[cur].json) =>
        /\ result.dead_nodes = dead
        /\ DeadCodeDiags(result.warnings) = {}
        /\ DeadCodeDiags(result.info) = {}
        /\ IF dead # {}
           THEN /\ Cardinality(DeadCodeDiags(result.errors)) = 1
                /\ \A i \in DeadCodeDiags(result.errors) :
                       /\ { result.errors[i].names[j] : j \in DOMAIN result.errors[i].names } = dead
                       /\ result.errors[i].count = Cardinality(dead)
                /\ Status(result) = "FAIL"
           ELSE DeadCodeDiags(result.errors) = {}

\* trigger N1 -> code N2, code N3 unconnected: dead set {N3}, status FAIL,
\* one error naming N3; and a result with two dead nodes in one error
C10_Witness ==
    /\ pc = "validated"
    /\ files[cur].json
    /\ Len(Nodes(workflow)) = 3
    /\ Nodes(workflow)[1].type = TypeManualTrigger
    /\ Nodes(workflow)[2].type = TypeCode
    /\ Nodes(workflow)[3].type = TypeCode
    /\ Connections(workflow) =
           << [src |-> "N1", outputs |-> << [type |-> "main", slots |-> << <<"N2">> >>] >>] >>
    /\ dead = {"N3"}
    /\ result.errors = << DiagDeadCode({"N3"}) >>
    /\ Status(result) = "FAIL"

\* -------------------------------------------------------------------------
\* the results validate_workflow has returned so far in the run
Returned ==
    { results[i] : i \in DOMAIN results }
    \cup (IF pc \in {"validated", "exited"} /\ cur # 0 THEN {result} ELSE {})

DanglingSources(w) ==
    { Connections(w)[i].src : i \in DOMAIN Connections(w) } \ NodeNames(w)

DanglingTargets(w) ==
    { st \in AllNames(w) \X AllNames(w) : HasEdge(w, st[1], st[2]) /\ st[2] \notin NodeNames(w) }

Errors(r) == { r.errors[i] : i \in DOMAIN r.errors }

\* the workflow validate_workflow has analysed and returned a result for
Analysed ==
    /\ pc = "validated"
    /\ files[cur].json
    /\ ~Get(workflow, "isArchived", FALSE)

\* the result names every connection out of or into a name that is no node
DanglingReported ==
    /\ \A s \in DanglingSources(workflow) : DiagFromMissing(s) \in Errors(result)
    /\ \A st \in DanglingTargets(workflow) : DiagToMissing(st[1], st[2]) \in Errors(result)

\* C12: a connection whose source or target is no node of the document gives
\* an error diagnostic and does not stop the analysis: wherever the dangling
\* name is, reachable from a trigger or not, validate_workflow returns a
\* result with that error and no exception leaves it.
C12_DanglingReferenceReported ==
    /\ ~(pc = "crashed" /\ cur # 0 /\ Unknown(workflow, reachable) # {})
    /\ Analysed => DanglingReported

\* C12, for the calls of validate_workflow that return: their result names
\* every dangling connection, next to the other diagnostics
C12_ReportedOnReturn ==
    Analysed =>
        /\ DanglingReported
        /\ dead # {} => DiagDeadCode(dead) \in Errors(result)

\* -------------------------------------------------------------------------
\* the result of a file that did not load: one error and nothing else
LoadFailure(r) ==
    /\ Len(r.errors) = 1
    /\ r.errors[1] \in {DiagInvalidJson, DiagCannotRead}
    /\ r.warnings = <<>>
    /\ r.info = <<>>
    /\ r.dead_nodes = {}

\* every file that does not load has such a result, and a run over the
\* directory that reaches its end has a result for every file, in order
FailuresReported ==
    /\ (pc = "validated" /\ ~files[cur].json) => LoadFailure(result)
    /\ (pc = "exited" /\ args.workflow = 0) =>
           /\ Len(results) = Len(files)
           /\ \A i \in DOMAIN files :
                  /\ results[i].filepath = i
                  /\ ~files[i].json => LoadFailure(results[i])

\* after a file that did not load, validate_all goes on with the other files
GoesOnAfterFailure ==
    (pc = "validated" /\ ~files[cur].json /\ args.workflow = 0) =>
        /\ pc' = "validate"
        /\ todo' = todo
        /\ results' = Append(results, result)

\* no run is ended by an exception raised while a file is loaded, by the
\* constructor (cur = 0) or by validate_workflow
NoLoadAborts == pc = "crashed" => (cur # 0 /\ Raises(files[cur]) = "")

\* C13: a file that is malformed or cannot be read gives a result with exactly
\* one error and no analysis of the document, and in whole-directory mode the
\* run goes on: the other documents are validated and reported.
C13_MalformedFileIsOneError ==
    /\ FailuresReported
    /\ NoLoadAborts

\* C13, for the files that raise json.JSONDecodeError or IOError: each gives
\* a result with exactly one error, and validate_all goes on after it
C13_LoadFailureIsOneError ==
    /\ []FailuresReported
    /\ [][GoesOnAfterFailure]_vars

\* a run over a directory whose first file does not load and whose second
\* file, a document with a node, was validated after it
C13_Witness ==
    /\ pc = "exited"
    /\ args.workflow = 0
    /\ Len(files) = 2
    /\ ~files[1].json
    /\ files[2].json
    /\ Nodes(files[2].workflow) # <<>>
    /\ LoadFailure(results[1])
    /\ results[2].workflow_name = "Order_Flow"
    /\ Status(results[2]) # "PASS"

\* -------------------------------------------------------------------------
\* C14: a workflow that is not archived and has no key nodes, or no key
\* connections, is reported with an error; the key is not replaced by an
\* empty collection with which the document passes or only warns.
C14_MissingKeyIsError ==
    (Analysed /\ ~({"nodes", "connections"} \subseteq DOMAIN workflow)) =>
        /\ result.errors # <<>>
        /\ Status(result) = "FAIL"

\* -------------------------------------------------------------------------
\* two nodes of w have the same name
RepeatedNames(w) ==
    \E i \in DOMAIN Nodes(w) : \E j \in DOMAIN Nodes(w) :
        i # j /\ Nodes(w)[i].name = Nodes(w)[j].name

\* C15: a workflow in which two nodes have the same name is reported with an
\* error; the two nodes are not taken for one.
C15_RepeatedNameIsError ==
    (Analysed /\ RepeatedNames(workflow)) =>
        /\ result.errors # <<>>
        /\ Status(result) = "FAIL"

\* -------------------------------------------------------------------------
\* the executeWorkflow nodes of w that refer to a workflow by its name
Callers(w) ==
    { i \in DOMAIN Nodes(w) :
        /\ get_node_type(Nodes(w)[i]) = "executeWorkflow"
        /\ "workflowId" \in DOMAIN Get(Nodes(w)[i], "parameters", EmptyObject)
        /\ "cachedResultName" \in DOMAIN Nodes(w)[i].parameters.workflowId }

ReferredBy(node) == node.parameters.workflowId.cachedResultName

\* the directory fs with one more file: a workflow of the name name
WithWorkflow(fs, name) == Append(fs, JsonFile([OtherDoc EXCEPT !.name = name]))

\* the errors of r about workflows that do not exist
UnknownWorkflowErrors(r) ==
    { i \in DOMAIN r.errors : r.errors[i].kind = DiagUnknownWorkflow("", "").kind }

\* C16: an executeWorkflow node that refers to a workflow name that no
\* document of the directory has gives exactly one error; once a document of
\* that name is in the directory and the names are loaded again, validating
\* the same node gives no error for the reference.
C16_UnknownWorkflowIsOneError ==
    Analysed =>
        /\ Cardinality(UnknownWorkflowErrors(result)) =
               Cardinality({ i \in Callers(workflow) :
                               ReferredBy(Nodes(workflow)[i]) \notin workflow_names })
        /\ \A i \in Callers(workflow) :
               LET node == Nodes(workflow)[i]
                   error == DiagUnknownWorkflow(node.name, ReferredBy(node))
                   added == WorkflowNamesOf(WithWorkflow(files, ReferredBy(node)))
               IN  /\ Count(NodeErrors(node, workflow_names), error) =
                          (IF ReferredBy(node) \in workflow_names THEN 0 ELSE 1)
                   /\ Count(result.errors, error) =
                          Cardinality({ j \in Callers(workflow) :
                                          /\ Nodes(workflow)[j].name = node.name
                                          /\ ReferredBy(Nodes(workflow)[j]) = ReferredBy(node)
                                          /\ ReferredBy(node) \notin workflow_names })
                   /\ Count(ResultOf(cur, workflow, dead, added).errors, error) = 0
                   /\ Count(check_execute_workflow_config(node, added), error) = 0

\* a node in list mode that refers to the workflow Other, in a directory
\* without it: its one error is the only error of the result
C16_Witness ==
    /\ Analysed
    /\ "Other" \notin workflow_names
    /\ \E i \in Callers(workflow) :
           /\ ReferredBy(Nodes(workflow)[i]) = "Other"
           /\ Nodes(workflow)[i].parameters.workflowId.mode = "list"
           /\ result.errors = <<DiagUnknownWorkflow(Nodes(workflow)[i].name, "Other")>>
           /\ ResultOf(cur, workflow, dead, WorkflowNamesOf(WithWorkflow(files, "Other"))).errors
                  = <<>>

\* -------------------------------------------------------------------------
Warnings(r) == { r.warnings[i] : i \in DOMAIN r.warnings }

\* the executeWorkflow nodes of w
ExecuteWorkflowNodes(w) ==
    { i \in DOMAIN Nodes(w) : get_node_type(Nodes(w)[i]) = "executeWorkflow" }

WorkflowIdOf(node) == Get(Get(node, "parameters", EmptyObject), "workflowId", EmptyObject)

\* the node refers to the workflow in another mode than "list"
NotListMode(node) ==
    ~IsEmpty(WorkflowIdOf(node)) /\ Get(WorkflowIdOf(node), "mode", "None") # "list"

\* C17: for an executeWorkflow node a missing workflowId and a referred name
\* that no document has are errors, and a reference in another mode than
\* "list" is a warning: a document with no other issue has status WARN.
C17_ReferenceModeIsWarning ==
    Analysed =>
        \A i \in ExecuteWorkflowNodes(workflow) :
            LET node == Nodes(workflow)[i]
                mode == Get(WorkflowIdOf(node), "mode", "None")
                name == Get(WorkflowIdOf(node), "cachedResultName", "")
            IN  /\ IsEmpty(WorkflowIdOf(node)) =>
                       DiagMissingWorkflowId(node.name) \in Errors(result)
                /\ (name # "" /\ name \notin workflow_names) =>
                       DiagUnknownWorkflow(node.name, name) \in Errors(result)
                /\ NotListMode(node) =>
                       /\ DiagNotListMode(node.name, mode) \in Warnings(result)
                       /\ DiagNotListMode(node.name, mode) \notin Errors(result)
                       /\ (Len(result.errors) + Len(result.warnings) = 1) =>
                              Status(result) = "WARN"

\* C17, with the severity the code gives: the three are errors
C17_AllThreeAreErrors ==
    Analysed =>
        \A i \in ExecuteWorkflowNodes(workflow) :
            LET node == Nodes(workflow)[i]
                mode == Get(WorkflowIdOf(node), "mode", "None")
                name == Get(WorkflowIdOf(node), "cachedResultName", "")
            IN  /\ IsEmpty(WorkflowIdOf(node)) =>
                       DiagMissingWorkflowId(node.name) \in Errors(result)
                /\ (name # "" /\ name \notin workflow_names) =>
                       DiagUnknownWorkflow(node.name, name) \in Errors(result)
                /\ NotListMode(node) =>
                       /\ DiagNotListMode(node.name, mode) \in Errors(result)
                       /\ Status(result) = "FAIL"

\* -------------------------------------------------------------------------
\* the switch nodes of w
SwitchNodes(w) == { i \in DOMAIN Nodes(w) : get_node_type(Nodes(w)[i]) = "switch" }

\* options.fallbackOutput of the node, JsonNull if it has none
FallbackOf(node) ==
    Get(Get(Get(node, "parameters", EmptyObject), "options", EmptyObject),
        "fallbackOutput", JsonNull)

\* the node is of typeVersion 3 or more and has a fallbackOutput that is
\* neither "extra" nor "none"
BadFallback(node) ==
    /\ Get(node, "typeVersion", 1) >= 3
    /\ FallbackOf(node) # JsonNull
    /\ FallbackOf(node) \notin {JsonStr("extra"), JsonStr("none")}

\* the errors of r about the fallbackOutput of a switch node
FallbackErrors(r) ==
    { i \in DOMAIN r.errors :
        r.errors[i].kind \in {DiagFallbackInvalid("", "").kind,
                              DiagFallbackNotString("", "").kind} }

\* C18: a switch node of typeVersion 3 or more gets exactly one error if it
\* has a fallbackOutput other than "extra" and "none", and no error if it has
\* one of the two or none; a switch node of a lower version gets no error
\* from this check whatever its fallbackOutput.
C18_SwitchFallback ==
    Analysed =>
        /\ \A i \in SwitchNodes(workflow) :
               LET node == Nodes(workflow)[i]
               IN  /\ Len(check_switch_node_config(node)) = (IF BadFallback(node) THEN 1 ELSE 0)
                   /\ \A e \in DOMAIN check_switch_node_config(node) :
                          /\ check_switch_node_config(node)[e].src = node.name
                          /\ check_switch_node_config(node)[e] \in Errors(result)
        /\ Cardinality(FallbackErrors(result))
               = Cardinality({ i \in SwitchNodes(workflow) : BadFallback(Nodes(workflow)[i]) })
        /\ FallbackErrors([result EXCEPT !.errors = result.warnings]) = {}

\* a switch node of version 3 with fallbackOutput "maybe": its error is the
\* one error of the result
C18_Witness ==
    /\ Analysed
    /\ \E i \in SwitchNodes(workflow) :
           /\ Get(Nodes(workflow)[i], "typeVersion", 1) = 3
           /\ FallbackOf(Nodes(workflow)[i]) = JsonStr("maybe")
           /\ result.errors = <<DiagFallbackInvalid(Nodes(workflow)[i].name, "maybe")>>
           /\ Status(result) = "FAIL"

\* -------------------------------------------------------------------------
\* the merge nodes of w
MergeNodes(w) == { i \in DOMAIN Nodes(w) : get_node_type(Nodes(w)[i]) = "merge" }

\* the diagnostics of the merge check
MergeDiags(seq) ==
    { i \in DOMAIN seq :
        seq[i].kind \in {DiagMergeEmpty("").kind, DiagMergeNoMode("").kind} }

\* C19: a merge node with empty parameters gets exactly one error from the
\* merge check, one with parameters but without the key mode gets a warning
\* and no error, one with the parameters {mode: "append"} gets no diagnostic.
C19_MergeRule ==
    Analysed =>
        \A i \in MergeNodes(workflow) :
            LET node == Nodes(workflow)[i]
                params == Get(node, "parameters", EmptyObject)
            IN  /\ IsEmpty(params) =>
                       /\ Count(result.errors, DiagMergeEmpty(node.name)) >= 1
                       /\ Cardinality(MergeDiags(result.errors))
                              = Cardinality({ j \in MergeNodes(workflow) :
                                    IsEmpty(Get(Nodes(workflow)[j], "parameters", EmptyObject)) })
                /\ (~IsEmpty(params) /\ "mode" \notin DOMAIN params) =>
                       /\ DiagMergeNoMode(node.name) \in Warnings(result)
                       /\ DiagMergeNoMode(node.name) \notin Errors(result)
                /\ params = [mode |-> "append"] =>
                       \A d \in Errors(result) \cup Warnings(result) :
                           d.kind \in {DiagMergeEmpty("").kind, DiagMergeNoMode("").kind}
                               => d.src # node.name

\* C19, for check_merge_node_config of workflows/lint_workflows.py: that one
\* gives the severities of the claim
C19_LintMergeRule ==
    Analysed =>
        \A i \in MergeNodes(workflow) :
            LET node == Nodes(workflow)[i]
                params == Get(node, "parameters", EmptyObject)
                added == lint_check_merge_node_config(node)
            IN  /\ IsEmpty(params) =>
                       added = [errors |-> <<DiagMergeEmpty(node.name)>>, warnings |-> <<>>]
                /\ (~IsEmpty(params) /\ "mode" \notin DOMAIN params) =>
                       added = [errors |-> <<>>, warnings |-> <<DiagMergeNoMode(node.name)>>]
                /\ params = [mode |-> "append"] =>
                       added = [errors |-> <<>>, warnings |-> <<>>]

\* C19, for check_merge_node_config of the validator: both are warnings
C19_BothAreWarnings ==
    Analysed =>
        /\ MergeDiags(result.errors) = {}
        /\ \A i \in MergeNodes(workflow) :
               LET node == Nodes(workflow)[i]
                   params == Get(node, "parameters", EmptyObject)
               IN  /\ IsEmpty(params) => DiagMergeEmpty(node.name) \in Warnings(result)
                   /\ (~IsEmpty(params) /\ "mode" \notin DOMAIN params) =>
                          DiagMergeNoMode(node.name) \in Warnings(result)

\* -------------------------------------------------------------------------
\* C20: for a workflow that is not archived and has no trigger node, the
\* triggers are none and the traversal visits nothing; the absence is
\* reported as exactly one warning and never as an error, and the dead nodes
\* are reported as for a workflow with triggers: one DEAD CODE error.
C20_NoTriggerIsWarning ==
    /\ (pc \in {"bfs", "rescue"} /\ TriggerSet(workflow) = {}) =>
           /\ Triggers(workflow) = <<>>
           /\ queue = <<>>
           /\ reachable = {}
    /\ Analysed =>
           /\ Count(result.warnings, DiagNoTrigger) = (IF TriggerSet(workflow) = {} THEN 1 ELSE 0)
           /\ DiagNoTrigger \notin Errors(result)
           /\ TriggerSet(workflow) = {} =>
                  /\ dead = NodeNames(workflow)
                  /\ result.dead_nodes = dead
           /\ IF dead # {}
              THEN /\ Count(result.errors, DiagDeadCode(dead)) = 1
                   /\ DeadCodeDiags(result.warnings) = {}
              ELSE DeadCodeDiags(result.errors) = {}

\* a workflow of two connected nodes and no trigger: one warning for the
\* triggers, one error for the two dead nodes
C20_Witness ==
    /\ Analysed
    /\ TriggerSet(workflow) = {}
    /\ Cardinality(NodeNames(workflow)) = 2
    /\ \E s \in NodeNames(workflow) : \E t \in NodeNames(workflow) : HasEdge(workflow, s, t)
    /\ result.warnings = <<DiagNoTrigger>>
    /\ result.errors = <<DiagDeadCode(NodeNames(workflow))>>
    /\ Status(result) = "FAIL"

\* -------------------------------------------------------------------------
\* the result of an archived workflow: the one info diagnostic and nothing else
ArchivedResult(r, w, filepath) ==
    r = [workflow_name |-> NameOf(w, filepath), filepath |-> filepath, errors |-> <<>>,
         warnings |-> <<>>, info |-> <<DiagArchived>>, dead_nodes |-> {}]

\* the file cur is an archived workflow and validate_workflow has returned
ArchivedValidated ==
    /\ pc = "validated"
    /\ files[cur].json
    /\ Get(files[cur].workflow, "isArchived", FALSE)

\* the result of every archived workflow is as said, and no traversal runs on one
ArchivedSkipped ==
    /\ ArchivedValidated =>
           /\ ArchivedResult(result, files[cur].workflow, cur)
           /\ Status(result) = "PASS"
           /\ bfsVars = <<<<>>, {}, 0, {}>> \/ args.workflow = 0
    /\ (pc \in {"bfs", "rescue", "crashed"}) => ~Get(workflow, "isArchived", FALSE)
    /\ \A i \in DOMAIN results :
           (files[i].json /\ Get(files[i].workflow, "isArchived", FALSE)) =>
               /\ ArchivedResult(results[i], files[i].workflow, i)
               /\ Status(results[i]) = "PASS"

\* after the result of an archived workflow, with or without --fix, the
\* file is as it was
ArchivedNotFixed == ArchivedValidated => files' = files

\* C21: for a workflow marked archived the analysis is skipped: whatever its
\* nodes and connections hold, the result has no error, no warning, no dead
\* node and exactly one info diagnostic, its status is PASS, and the fixer
\* does not touch the file.
C21_ArchivedIsSkipped ==
    /\ []ArchivedSkipped
    /\ [][ArchivedNotFixed]_vars

\* a run with --fix over an archived workflow whose nodes are all dead and
\* whose second node is misconfigured: PASS, and the file as it was
C21_Witness ==
    /\ pc = "exited"
    /\ args.fix
    /\ cur = 1
    /\ Get(files[1].workflow, "isArchived", FALSE)
    /\ Len(Nodes(files[1].workflow)) = 2
    /\ Connections(files[1].workflow) = <<>>
    /\ DeadSetOf(Without(files[1].workflow, "isArchived")) # {}
    /\ NodeErrors(Nodes(files[1].workflow)[2], workflow_names) # <<>>
    /\ ArchivedResult(result, files[1].workflow, 1)
    /\ files[1].workflow = workflow

\* -------------------------------------------------------------------------
\* the files of the directory that load as a workflow document
Parsable == { i \in DOMAIN files : files[i].json }

\* the names of the documents of the directory that parse are all loaded
NamesLoaded ==
    pc \notin {"construct", "crashed"} =>
        workflow_names = { NameOf(files[i].workflow, i) : i \in Parsable }

\* a file that was skipped fails with one error of its own when validated
SkippedFileFails ==
    (pc = "validated" /\ ~files[cur].json) =>
        /\ Len(result.errors) = 1
        /\ Status(result) = "FAIL"

\* C22: loading the workflow names over a directory with files that do not
\* parse does not abort: such files are skipped, the name of every document
\* that parses is loaded, and a skipped file fails with its own error when
\* it is validated.
C22_RegistrySkipsUnparsable ==
    /\ ~(pc = "crashed" /\ cur = 0)
    /\ NamesLoaded
    /\ SkippedFileFails

\* C22, for the files that raise json.JSONDecodeError or IOError: they are
\* skipped, the names of the others are loaded, and they fail when validated
C22_CaughtFilesSkipped ==
    (\A i \in DOMAIN files : Raises(files[i]) = "") =>
        /\ pc # "construct" => workflow_names = { NameOf(files[i].workflow, i) : i \in Parsable }
        /\ ~(pc = "crashed" /\ cur = 0)
        /\ SkippedFileFails

\* -------------------------------------------------------------------------
\* fix_workflow was called on the file cur, whose result has dead nodes, and
\* did not write the fixed document
FixFailed ==
    /\ pc \in {"validate", "exited", "crashed"}
    /\ cur # 0
    /\ args.fix
    /\ result.dead_nodes # {}
    /\ Unknown(workflow, reachable) = {}
    /\ FixOutcome(files[cur], result) # "fixed"

\* the result of the file cur as the run reports it
Reported == IF args.workflow # 0 THEN result ELSE results[cur]

\* C23: when fix_workflow fails on a document, because the document cannot
\* be read again or the fixed document cannot be written, the failure is an
\* error diagnostic of that document, next to those validate_workflow gave
\* it, and no exception ends the run before the other documents are validated.
C23_FixFailureIsError ==
    FixFailed =>
        /\ pc # "crashed"
        /\ Len(Reported.errors) > Len(ResultOf(cur, workflow, dead, workflow_names).errors)

\* C23, as the code behaves: a document that cannot be read again is left as
\* it is without any diagnostic, and one that cannot be written ends the run
C23_FixFailureIsSilentOrFatal ==
    FixFailed =>
        /\ Reported = ResultOf(cur, workflow, dead, workflow_names)
        /\ files[cur].workflow = workflow
        /\ IF Get(files[cur], "rereadable", TRUE)
           THEN pc = "crashed" /\ exitCode = 1
           ELSE pc # "crashed"

\* -------------------------------------------------------------------------
\* validate_workflow as a function of one file and the loaded names alone
ResultFor(file, filepath, names) ==
    IF ~file.json
    THEN [NewResult(filepath) EXCEPT
              !.errors = IF file.readable THEN <<DiagInvalidJson>> ELSE <<DiagCannotRead>>]
    ELSE IF Get(file.workflow, "isArchived", FALSE)
    THEN [NewResult(filepath) EXCEPT !.workflow_name = NameOf(file.workflow, filepath),
                                     !.info = <<DiagArchived>>]
    ELSE ResultOf(filepath, file.workflow, DeadSetOf(file.workflow), names)

\* the number of errors and of warnings of the first n results
RECURSIVE ErrorCount(_, _)
ErrorCount(rs, n) == IF n = 0 THEN 0 ELSE Len(rs[n].errors) + ErrorCount(rs, n - 1)

RECURSIVE WarningCount(_, _)
WarningCount(rs, n) == IF n = 0 THEN 0 ELSE Len(rs[n].warnings) + WarningCount(rs, n - 1)

\* the loaded names are those of the documents of the directory, the results
\* so far are those of the first files, and the totals are their sums
TotalsAreSums ==
    (args.workflow = 0 /\ pc \notin {"construct", "crashed"}) =>
        /\ workflow_names = WorkflowNamesOf(files)
        /\ \A i \in DOMAIN results : results[i].filepath = i
        /\ total_errors = ErrorCount(results, Len(results))
        /\ total_warnings = WarningCount(results, Len(results))

\* every step leaves the loaded names and the files not yet validated as
\* they are, a fix included, and the result appended for a file is the one
\* of that file and the loaded names alone
StepsAreIndependent ==
    /\ pc # "construct" => workflow_names' = workflow_names
    /\ \A i \in DOMAIN files : i # cur => files'[i] = files[i]
    /\ \A i \in DOMAIN todo : files'[todo[i]] = files[todo[i]]
    /\ (pc = "validated" /\ args.workflow = 0) =>
           results' = Append(results, ResultFor(files[cur], cur, workflow_names))

\* C24: in whole-directory mode the result of a document is a function of
\* the document and of the names loaded at start-up, whatever was validated
\* or fixed before it; the loaded names do not change after construction;
\* the totals are the sums of the counts of the results.
C24_ResultsAreIndependent ==
    /\ []TotalsAreSums
    /\ [][StepsAreIndependent]_vars

\* a run with --fix over two files, after the first: it refers to the second
\* by name, which is loaded, it had a dead node and was fixed, and the second
\* file is still as it was
C24_Witness ==
    /\ pc = "validate"
    /\ args.workflow = 0
    /\ args.fix
    /\ cur = 1
    /\ todo = <<2>>
    /\ "Other" \in workflow_names
    /\ \E i \in Callers(workflow) : ReferredBy(Nodes(workflow)[i]) = "Other"
    /\ results = <<ResultFor(JsonFile(workflow), 1, workflow_names)>>
    /\ results[1].dead_nodes # {}
    /\ UnknownWorkflowErrors(results[1]) = {}
    /\ files[1] = JsonFile(FixWorkflow(workflow, results[1].dead_nodes))
    /\ files[1].workflow # workflow
    /\ files[2] = JsonFile(OtherDoc)
    /\ total_errors = Len(results[1].errors)
    /\ total_errors > 0

\* -------------------------------------------------------------------------
\* the diagnostics validate_workflow gives as warnings
WarningKinds ==
    { DiagNoTrigger.kind, DiagEmptyTrigger("").kind, DiagReturnsArray("").kind,
      DiagMergeEmpty("").kind, DiagMergeNoMode("").kind }

\* the exit code with the flag strict, all else being the same
ExitCodeWith(strict) == ExitCodeFor(AnyError, strict, AnyWarning)

\* C25: --strict changes the exit code only.  With and without it the result
\* of a file is the same function of the file and the loaded names, which
\* has no strict among its arguments: the same diagnostics with the same
\* severities, the same dead set and the same status; no warning is reported
\* as an error; the exit code is 2 in place of 0 when there are warnings and
\* no errors, and is otherwise the same.
C25_StrictOnlyExitCode ==
    /\ pc = "validated" =>
           /\ result = ResultFor(files[cur], cur, workflow_names)
           /\ Status(result) = Status(ResultFor(files[cur], cur, workflow_names))
    /\ \A r \in Returned :
           /\ \A e \in Errors(r) : e.kind \notin WarningKinds
           /\ \A e \in Warnings(r) : e.kind \in WarningKinds
    /\ pc = "exited" =>
           /\ exitCode = ExitCodeWith(args.strict)
           /\ ExitCodeWith(TRUE) = (IF ExitCodeWith(FALSE) = 0 /\ AnyWarning
                                    THEN 2 ELSE ExitCodeWith(FALSE))
           /\ ExitCodeWith(FALSE) \in {0, 1}

\* a run with --strict whose one result has a warning and no error: it is
\* reported as a warning, the status is WARN, and the exit code is 2
C25_Witness ==
    /\ pc = "exited"
    /\ args.strict
    /\ exitCode = 2
    /\ Len(Collected) = 1
    /\ Collected[1].errors = <<>>
    /\ Collected[1].warnings # <<>>
    /\ Status(Collected[1]) = "WARN"
    /\ Collected[1] = ResultFor(files[1], 1, workflow_names)
    /\ ExitCodeWith(FALSE) = 0

\* -------------------------------------------------------------------------
\* lint_workflow has returned the result of a file it could load
Linted == pc = "linted" /\ files[cur].json

\* the code nodes of w
CodeNodes(w) == { i \in DOMAIN Nodes(w) : get_node_type(Nodes(w)[i]) = "code" }

\* the code node initializes ctx.event; the field is named in what it gives it
InitializesEvent(node) == {"ctx:", "event:"} \subseteq CtxPatternsIn(JsCodeOf(node))
HasField(node, field) == (field \o ":") \in CtxPatternsIn(JsCodeOf(node))

\* the diagnostics of the required-fields rule that name node
RequiredFieldsDiags(r, node) ==
    { d \in (Errors(r) \cup Warnings(r)) \cup { r.infos[k] : k \in DOMAIN r.infos } :
        /\ d.src = node.name
        /\ d.kind \in {DiagMissingCritical("", <<>>).kind,
                       DiagMissingRecommended("", <<>>).kind, DiagHasFields("").kind} }

EventIdError(node) == DiagMissingCritical(node.name, <<"event_id">>)
TraceChainWarning(node) == DiagMissingRecommended(node.name, <<"trace_chain">>)

\* C26: for a code node that initializes ctx.event the rule reports an error
\* iff event_id is absent and a warning iff trace_chain is absent, whatever
\* the other field does; a code node that does not initialize ctx.event gets
\* no diagnostic from the rule.
C26_RequiredFieldsRule ==
    Linted =>
        \A i \in CodeNodes(workflow) :
            LET node == Nodes(workflow)[i]
            IN  IF InitializesEvent(node)
                THEN /\ EventIdError(node) \in Errors(lint.result)
                            <=> ~HasField(node, "event_id")
                     /\ TraceChainWarning(node) \in Warnings(lint.result)
                            <=> ~HasField(node, "trace_chain")
                ELSE RequiredFieldsDiags(lint.result, node) = {}

\* C26, as the rule is written: the warning about trace_chain is reported
\* only when event_id is there
C26_ErrorHidesWarning ==
    Linted =>
        \A i \in CodeNodes(workflow) :
            LET node == Nodes(workflow)[i]
            IN  IF InitializesEvent(node)
                THEN /\ EventIdError(node) \in Errors(lint.result)
                            <=> ~HasField(node, "event_id")
                     /\ TraceChainWarning(node) \in Warnings(lint.result)
                            <=> (HasField(node, "event_id") /\ ~HasField(node, "trace_chain"))
                ELSE RequiredFieldsDiags(lint.result, node) = {}

\* a node that gives ctx.event neither field has been linted
C26_BothAbsent ==
    /\ Linted
    /\ \E i \in CodeNodes(workflow) :
           /\ JsCodeOf(Nodes(workflow)[i]) = CodeCtxNeither
           /\ EventIdError(Nodes(workflow)[i]) \in Errors(lint.result)

\* -------------------------------------------------------------------------
\* the names in the work queue
QueueNames == { queue[i] : i \in DOMAIN queue }

\* the edges of the reachability graph of w, each as often as it is listed
RECURSIVE EdgeTotalFrom(_, _)
EdgeTotalFrom(w, i) ==
    IF i > Len(NodeNameSeq) THEN 0
    ELSE Len(Neighbors(Graph(w), NodeNameSeq[i])) + EdgeTotalFrom(w, i + 1)
EdgeTotal(w) == EdgeTotalFrom(w, 1)

\* find_dead_code is in its loop or has just left it
Traversing == pc \in {"bfs", "rescue"}

\* a name is in the queue or visited only as a trigger or as the target of
\* an edge out of a visited node
QueuedForAReason ==
    Traversing =>
        \A name \in QueueNames \cup reachable :
            \/ name \in TriggerSet(workflow)
            \/ \E src \in reachable :
                   \E i \in DOMAIN Neighbors(Graph(workflow), src) :
                       Neighbors(Graph(workflow), src)[i] = name

EnqueuesBounded ==
    Traversing => enqueued <= Len(Triggers(workflow)) + EdgeTotal(workflow)

\* an iteration visits at most the name it takes out of the queue, never
\* forgets a visited name, and puts names in the queue only when the name
\* it took out was not visited before
ExpandsOnce ==
    (pc = "bfs" /\ pc' = "bfs") =>
        /\ reachable \subseteq reachable'
        /\ reachable' \subseteq reachable \cup {Head(queue)}
        /\ Head(queue) \in reachable =>
               /\ reachable' = reachable
               /\ queue' = Tail(queue)
               /\ enqueued' = enqueued
        /\ enqueued' - enqueued <= Len(Neighbors(Graph(workflow), Head(queue)))

\* C27: during the traversal every name in the queue or visited is a trigger
\* or the target of an edge out of a visited node, a node is visited and
\* expanded at most once, and the names put in the queue are never more than
\* the triggers plus the edges, cycles, self-loops and duplicate edges included.
C27_TraversalIsLinear ==
    /\ [](QueuedForAReason /\ EnqueuesBounded)
    /\ [][ExpandsOnce]_vars

\* a traversal has ended on a document with an edge that is listed twice or
\* loops back to its source, and it put as many names in the queue as there
\* are triggers and edges
C27_Witness ==
    /\ pc = "rescue"
    /\ \E src \in reachable :
           LET nbs == Neighbors(Graph(workflow), src)
           IN  \E i \in DOMAIN nbs : \E j \in DOMAIN nbs : i < j /\ nbs[i] = nbs[j]
    /\ enqueued = Len(Triggers(workflow)) + EdgeTotal(workflow)
    /\ enqueued >= 3

\* the same bound when an edge closes a cycle: the traversal has ended and
\* put fewer names in the queue than there are triggers and edges
C27_CycleWitness ==
    /\ pc = "rescue"
    /\ \E src \in reachable :
           \E i \in DOMAIN Neighbors(Graph(workflow), src) :
               Neighbors(Graph(workflow), src)[i] = src
    /\ enqueued < Len(Triggers(workflow)) + EdgeTotal(workflow)

\* -------------------------------------------------------------------------
\* the sources of the connection entries of w that name target
SourcesInto(w, target) == { src \in AllNames(w) : HasEdge(w, src, target) }

\* the nodes of w all of whose incoming connections, at least one, come from
\* names that are no node
FedByMissingOnly(w) ==
    { name \in NodeNames(w) :
        /\ SourcesInto(w, name) # {}
        /\ SourcesInto(w, name) \cap NodeNames(w) = {} }

\* the model nodes the rescue takes out of the dead set
Rescued(w, r) == IF ReachableChains(w, r) # {} THEN AiModels(w) ELSE {}

\* C28: a connection entry whose source is no node of the document gives the
\* reachability graph no edge; a node whose only incoming edges come from
\* such sources is dead unless it is a trigger or a rescued model node; and
\* the result has one "Connection from non-existent node" error for each
\* such source.
C28_MissingSourceGivesNoEdge ==
    /\ Traversing =>
           /\ DOMAIN Graph(workflow) = NodeNames(workflow)
           /\ \A src \in DanglingSources(workflow) : Neighbors(Graph(workflow), src) = <<>>
           /\ FedByMissingOnly(workflow) \cap (reachable \cup QueueNames)
                  \subseteq TriggerSet(workflow)
    /\ Analysed =>
           /\ FedByMissingOnly(workflow) \ (TriggerSet(workflow) \cup Rescued(workflow, reachable))
                  \subseteq result.dead_nodes
           /\ \A src \in DanglingSources(workflow) :
                  Count(result.errors, DiagFromMissing(src)) = 1

\* a document with a trigger and a node that only a name that is no node
\* points to: the node is dead and the source is reported once
C28_Witness ==
    /\ Analysed
    /\ TriggerSet(workflow) # {}
    /\ \E name \in FedByMissingOnly(workflow) :
           /\ name \in result.dead_nodes
           /\ \A src \in SourcesInto(workflow, name) :
                  Count(result.errors, DiagFromMissing(src)) = 1

\* -------------------------------------------------------------------------
\* the model nodes the traversal did not reach and the rescue took out of
\* the dead set
RescuedOnly(w, r) == Rescued(w, r) \ r

\* the nodes of w that are neither trigger nor model and have incoming
\* connections from nodes, all of them from rescued model nodes
FedByRescuedOnly(w, r) ==
    { name \in NodeNames(w) \ (TriggerSet(w) \cup AiModels(w)) :
        /\ SourcesInto(w, name) \cap NodeNames(w) # {}
        /\ SourcesInto(w, name) \cap NodeNames(w) \subseteq RescuedOnly(w, r) }

\* the rescue takes only model nodes out of the dead set and leaves the
\* visited set and the queue as the traversal left them
RescueIsNoTraversal ==
    (pc = "rescue" /\ pc' = "validated") =>
        /\ reachable' = reachable
        /\ queue' = queue
        /\ dead' \subseteq dead
        /\ dead \ dead' \subseteq AiModels(workflow)

\* C29: the rescue is not transitive.  It takes only model nodes out of the
\* dead set and does not go on from them: a node that is no model and whose
\* only incoming edges come from rescued model nodes stays dead, and after
\* --fix the rescued model node is still there while its connections to the
\* dead nodes are gone.
C29_RescueNotTransitive ==
    /\ [](/\ Analysed => FedByRescuedOnly(workflow, reachable) \subseteq result.dead_nodes
          /\ Fixed =>
                 \A m \in RescuedOnly(workflow, reachable) :
                     /\ \E i \in DOMAIN Nodes(FixedDoc) :
                            Nodes(FixedDoc)[i] = NodeNamed(workflow, m)
                     /\ \A t \in result.dead_nodes : ~HasEdge(FixedDoc, m, t)
                     /\ IndexOfSrc(Connections(workflow), m, 1) # 0
                            => IndexOfSrc(Connections(FixedDoc), m, 1) # 0)
    /\ [][RescueIsNoTraversal]_vars

\* a fix of a document where a rescued model node points to a node that is
\* no model: that node was dead and is gone, the model node is kept without
\* the connection
C29_Witness ==
    /\ Fixed
    /\ \E m \in RescuedOnly(workflow, reachable) :
       \E n \in FedByRescuedOnly(workflow, reachable) :
           /\ HasEdge(workflow, m, n)
           /\ n \in result.dead_nodes
           /\ n \notin NodeNames(FixedDoc)
           /\ m \in NodeNames(FixedDoc)
           /\ ~HasEdge(FixedDoc, m, n)

\* -------------------------------------------------------------------------
\* the connection entries of w whose source is not in d
SurvivingEntries(w, d) == { i \in DOMAIN Connections(w) : Connections(w)[i].src \notin d }

\* C30: fix_workflow keeps the output-slot structure of every surviving
\* source: its output types in their order, for each type as many slots as
\* before, and in each slot the connections to surviving nodes in their
\* order; a slot that held only connections to dead nodes is still there,
\* empty, so the slot number of a surviving connection does not change.
C30_SlotsPreserved ==
    Fixed =>
        LET d == result.dead_nodes
        IN  \A i \in SurvivingEntries(workflow, d) :
                LET before == Connections(workflow)[i].outputs
                    j == IndexOfSrc(Connections(FixedDoc), Connections(workflow)[i].src, 1)
                    after == Connections(FixedDoc)[j].outputs
                IN  /\ j # 0
                    /\ Len(after) = Len(before)
                    /\ \A o \in DOMAIN before :
                           /\ after[o].type = before[o].type
                           /\ Len(after[o].slots) = Len(before[o].slots)
                           /\ \A sl \in DOMAIN before[o].slots :
                                  after[o].slots[sl]
                                      = SelectSeq(before[o].slots[sl], LAMBDA t : t \notin d)

\* a fix of a surviving source whose first slot held only a connection to a
\* dead node and whose second slot holds a connection that survives: the
\* first slot is empty and the second is still the second
C30_Witness ==
    /\ Fixed
    /\ \E i \in SurvivingEntries(workflow, result.dead_nodes) :
       \E o \in DOMAIN Connections(workflow)[i].outputs :
           LET src == Connections(workflow)[i].src
               ty == Connections(workflow)[i].outputs[o].type
           IN  /\ Len(Connections(workflow)[i].outputs[o].slots) = 2
               /\ SlotOf(workflow, src, ty, 1) # <<>>
               /\ \A k \in DOMAIN SlotOf(workflow, src, ty, 1) :
                      SlotOf(workflow, src, ty, 1)[k] \in result.dead_nodes
               /\ SlotOf(FixedDoc, src, ty, 1) = <<>>
               /\ SlotOf(FixedDoc, src, ty, 2) # <<>>
               /\ SlotOf(FixedDoc, src, ty, 2) = SlotOf(workflow, src, ty, 2)
====
